---- MODULE Spec2Model ----
(***************************************************************************)
(* Process lifecycle and scheduling subsystem of PyOS: the process         *)
(* manager (pid allocation, process tree, signals, zombies, fork/exec),    *)
(* the three scheduling disciplines, and the context switcher.             *)
(*                                                                         *)
(* Python objects are modelled with their identity: a ProcessControlBlock  *)
(* is a slot of the heap `pcbs`, a CpuContext a slot of `contexts`; the    *)
(* process table, the scheduler queues and the context switcher hold       *)
(* references (slot numbers).  A slot is reclaimed once nothing refers to  *)
(* it any more, as the Python runtime reclaims the object.                 *)
(***************************************************************************)
EXTENDS Integers, Sequences, FiniteSets, TLC

\* ---------------------------------------------------------------- bounds
MaxPid == 3          \* largest config.process.max_pid explored
SmallMaxPid == 2     \* config.process.max_pid of the full-interface specification
MaxProcesses == 3    \* config.process.max_processes, narrowed
SmallMaxProcesses == 2  \* config.process.max_processes of the limits specification
MaxObj == 3          \* ProcessControlBlock objects alive at one time
Quantum == 2         \* config.scheduler.quantum, narrowed
MaxPending == 2      \* longest pending-signal queue explored
MaxQueue == 3        \* longest ready queue explored
MaxZombies == 2      \* longest zombie list explored
IpModulus == 4       \* width of the simulated instruction pointer
MaxExpired == 4      \* time-slice expiries counted per process by the scheduler harness
MaxAgings == 1       \* get_next_process calls at which a wait exceeds the aging interval
PageSize == 2        \* config.memory.page_size, narrowed
TotalFrames == 2     \* config.memory.total_memory // page_size, narrowed
MaxMemoryPerProcess == 4  \* config.memory.max_memory_per_process, narrowed
MaxHeapPages == 3    \* pages a heap grows to in the runs explored
MaxMemPid == 1       \* largest pid that uses the memory manager
BuddyOrder == 3       \* log2 of the buddy allocator's total_size
BuddyMinOrder == 1    \* log2 of the buddy allocator's min_block_size
FrameCount == 4       \* total_frames of a frame allocator used on its own
MaxSpaceRegions == 2  \* regions of an address space used on its own
MaxGrowth == 2        \* bytes its heap and its stack grow to
MaxRegions == 2      \* regions an address space holds in the runs explored
SlabObjectSize == 1   \* object_size of the slab allocator explored
SlabSize == 2         \* its slab_size (4096 by default), narrowed
MaxSlabs == 2         \* slabs it grows to
MaxFreeObjects == 5   \* entries its free list grows to

\* ------------------------------------------------------ program constants
DefaultTimeSlice == 100
NumRegisters == 16
StackTop == 2147483647
SIGKILL == 9
SIGSEGV == 11
SIGTERM == 15
SIGCHLD == 17
SIGCONT == 18
SIGSTOP == 19
SIGTSTP == 20

SIGNAL_TERMINATE == {1, 2, SIGKILL, SIGTERM, 10, 12}
SIGNAL_IGNORE == {SIGCHLD, SIGCONT}
SIGNAL_STOP == {SIGSTOP, SIGTSTP, 21, 22}
SIGNAL_CORE == {3, 4, 6, 7, 8, SIGSEGV, 5}

PIDs == 1..MaxPid
Oids == 1..MaxObj
None == 0

VARIABLES
    config,           \* the loaded configuration: process.max_pid, process.max_processes
    pcbs,             \* heap of ProcessControlBlock objects
    contexts,         \* heap of CpuContext objects
    processes,        \* ProcessManager._processes: pid -> object (None: absent)
    pid_tree,         \* ProcessManager._pid_tree: parent pid -> list of pids
    zombie_list,      \* ProcessManager._zombie_list
    next_pid,         \* ProcessManager._next_pid
    scheduler,        \* the SchedulerAlgorithm instance
    current_process,  \* ContextSwitcher._current_process (None: idle)
    last,             \* the call just completed: arguments, result, observations
    history,          \* what a harness remembers: earlier scheduler calls, threads' positions
    memory            \* the MemoryManager with its frame allocator and address spaces

vars == <<config, pcbs, contexts, processes, pid_tree, zombie_list, next_pid,
          scheduler, current_process, last, history, memory>>

\* ------------------------------------------------------------ sequences
InSeq(s, x) == \E i \in 1..Len(s) : s[i] = x

FirstIndex(s, x) == CHOOSE i \in 1..Len(s) : s[i] = x /\ \A j \in 1..(i-1) : s[j] # x

\* list.remove(x) / deque.remove(x): drops the first occurrence
RemoveFirst(s, x) ==
    LET i == FirstIndex(s, x)
    IN  [j \in 1..(Len(s)-1) |-> IF j < i THEN s[j] ELSE s[j+1]]

Occurrences(s, x) == Cardinality({i \in 1..Len(s) : s[i] = x})

Range(s) == {s[i] : i \in 1..Len(s)}

Min(a, b) == IF a < b THEN a ELSE b
Max(a, b) == IF a < b THEN b ELSE a

\* --------------------------------------------------------------- objects
NoPcb == [pid |-> None]
NoCtx == [flags |-> -1]

\* CpuContext()
CpuContext == [instruction_pointer |-> 0, stack_pointer |-> 0, flags |-> 0,
               registers |-> {}]

\* ProcessControlBlock.__init__
ProcessControlBlock(pid, parent_pid, priority, ctx) ==
    [pid |-> pid, parent_pid |-> parent_pid, state |-> "NEW",
     exit_code |-> <<>>, priority |-> priority, nice |-> 0,
     time_slice |-> DefaultTimeSlice, time_remaining |-> DefaultTimeSlice,
     context |-> ctx, children |-> <<>>, pending_signals |-> <<>>,
     signal_handlers |-> {}, signal_mask |-> {}]

\* ProcessControlBlock.add_child
add_child(pcb, child_pid) ==
    IF InSeq(pcb.children, child_pid) THEN pcb
    ELSE [pcb EXCEPT !.children = Append(@, child_pid)]

\* ProcessControlBlock.remove_child
remove_child(pcb, child_pid) ==
    IF InSeq(pcb.children, child_pid)
    THEN [pcb EXCEPT !.children = RemoveFirst(@, child_pid)]
    ELSE pcb

\* ProcessControlBlock.send_signal
pcb_send_signal(pcb, signal) ==
    IF signal \notin pcb.signal_mask
    THEN [pcb EXCEPT !.pending_signals = Append(@, signal)]
    ELSE pcb

\* ProcessControlBlock.get_next_signal: the block afterwards and the signal
\* returned (None when nothing is pending)
get_next_signal(pcb) ==
    IF pcb.pending_signals # <<>>
    THEN [pcb |-> [pcb EXCEPT !.pending_signals = Tail(@)],
          ret |-> Head(pcb.pending_signals)]
    ELSE [pcb |-> pcb, ret |-> None]

\* The objects something still refers to; the others are reclaimed.
QueuedOids(sch) == UNION {Range(sch.queues[i]) : i \in 1..Len(sch.queues)}

Referenced(st) ==
    {st.processes[p] : p \in PIDs} \cup QueuedOids(st.scheduler)
        \cup {st.current_process}

Collect(st) ==
    LET live == Referenced(st) \ {None}
        heap == [o \in Oids |-> IF o \in live THEN st.pcbs[o] ELSE NoPcb]
        used == {heap[o].context : o \in live}
    IN  [st EXCEPT !.pcbs = heap,
                   !.contexts = [c \in Oids |-> IF c \in used THEN @[c] ELSE NoCtx]]

FreeOids(st) == {o \in Oids : st.pcbs[o] = NoPcb}

\* Identity of a CpuContext object created for pcb slot o: the object o held
\* before is reclaimed (and its identity reused) unless another pcb shares it.
NewCtxId(st, o) ==
    LET others == {st.pcbs[q].context : q \in {q \in Oids : q # o /\ st.pcbs[q] # NoPcb}}
        old == IF st.pcbs[o] = NoPcb THEN None ELSE st.pcbs[o].context
    IN  IF old # None /\ old \notin others THEN old
        ELSE IF o \notin others THEN o
        ELSE CHOOSE c \in Oids : c \notin others /\ \A d \in Oids : d \notin others => c <= d

\* -------------------------------------------------------------- scheduler
\* A dict's keys in insertion order (wait times are abstracted to their keys).
DictSet(keys, k) == IF InSeq(keys, k) THEN keys ELSE Append(keys, k)
DictPop(keys, k) == IF InSeq(keys, k) THEN RemoveFirst(keys, k) ELSE keys

PriorityLevels == 10
NumQueues == 4
BaseQuantum == 50
QuantumMultiplier == 2

RECURSIVE Pow(_, _)
Pow(b, e) == IF e = 0 THEN 1 ELSE b * Pow(b, e - 1)

\* MultiLevelFeedbackQueueScheduler.quantums (level is 0-based)
quantums(level) == BaseQuantum * Pow(QuantumMultiplier, level)

EmptyQueues(n) == [i \in 1..n |-> <<>>]

\* RoundRobinScheduler.__init__
RoundRobinScheduler(quantum) ==
    [alg |-> "round_robin", quantum |-> quantum, queues |-> EmptyQueues(1),
     wait_times |-> <<>>, process_queue |-> [p \in PIDs |-> -1],
     enable_aging |-> FALSE]

\* PriorityScheduler.__init__
PriorityScheduler(quantum, enable_aging) ==
    [alg |-> "priority", quantum |-> quantum, queues |-> EmptyQueues(PriorityLevels),
     wait_times |-> <<>>, process_queue |-> [p \in PIDs |-> -1],
     enable_aging |-> enable_aging]

\* MultiLevelFeedbackQueueScheduler.__init__
MultiLevelFeedbackQueueScheduler ==
    [alg |-> "mlfq", quantum |-> BaseQuantum, queues |-> EmptyQueues(NumQueues),
     wait_times |-> <<>>, process_queue |-> [p \in PIDs |-> -1],
     enable_aging |-> TRUE]

\* PriorityScheduler._get_priority_index (0-based)
get_priority_index(pcb) ==
    Min(Max(0, pcb.priority + pcb.nice), PriorityLevels - 1)

Enqueue(sch, level, o) == [sch EXCEPT !.queues[level + 1] = Append(@, o)]

Dequeue(sch, level, o) ==
    IF InSeq(sch.queues[level + 1], o)
    THEN [sch EXCEPT !.queues[level + 1] = RemoveFirst(@, o)]
    ELSE sch

\* RoundRobinScheduler.add_process
RoundRobin_add_process(st, o) ==
    [st EXCEPT !.pcbs[o].time_slice = st.scheduler.quantum,
               !.pcbs[o].time_remaining = st.scheduler.quantum,
               !.scheduler = Enqueue(@, 0, o)]

\* RoundRobinScheduler.remove_process
RoundRobin_remove_process(st, o) ==
    [st EXCEPT !.scheduler = Dequeue(@, 0, o)]

\* RoundRobinScheduler.get_next_process
RoundRobin_get_next_process(st) ==
    LET q == st.scheduler.queues[1]
    IN  IF q # <<>>
        THEN [st EXCEPT !.scheduler.queues[1] = Tail(q),
                        !.pcbs[Head(q)].time_remaining = st.scheduler.quantum,
                        !.ret = Head(q)]
        ELSE [st EXCEPT !.ret = None]

\* A time_slice_expired that puts the process at the front of the queue.
RoundRobin_time_slice_expired_front(st, o) ==
    [st EXCEPT !.pcbs[o].time_remaining = st.scheduler.quantum,
               !.scheduler.queues[1] = <<o>> \o @]

\* RoundRobinScheduler.time_slice_expired
RoundRobin_time_slice_expired(st, o) ==
    [st EXCEPT !.pcbs[o].time_remaining = st.scheduler.quantum,
               !.scheduler = Enqueue(@, 0, o)]

\* RoundRobinScheduler.yield_process
RoundRobin_yield_process(st, o) ==
    [st EXCEPT !.scheduler = Enqueue(@, 0, o)]

\* PriorityScheduler.add_process
Priority_add_process(st, o) ==
    LET idx == get_priority_index(st.pcbs[o])
    IN  [st EXCEPT !.pcbs[o].time_slice = st.scheduler.quantum,
                   !.pcbs[o].time_remaining = st.scheduler.quantum,
                   !.scheduler = [Enqueue(@, idx, o) EXCEPT !.wait_times =
                        IF st.scheduler.enable_aging
                        THEN DictSet(@, st.pcbs[o].pid) ELSE @]]

\* PriorityScheduler.remove_process
Priority_remove_process(st, o) ==
    LET idx == get_priority_index(st.pcbs[o])
    IN  [st EXCEPT !.scheduler = [Dequeue(@, idx, o) EXCEPT !.wait_times =
                        DictPop(@, st.pcbs[o].pid)]]

\* The object the inner loops of _apply_aging find for `pid` in one queue:
\* the first entry of the queue with that pid (None: no entry).
FirstWithPid(st, q, pid) ==
    IF \E i \in 1..Len(q) : st.pcbs[q[i]].pid = pid
    THEN q[CHOOSE i \in 1..Len(q) : st.pcbs[q[i]].pid = pid
                /\ \A j \in 1..(i-1) : st.pcbs[q[j]].pid # pid]
    ELSE None

\* PriorityScheduler._apply_aging; `aged` are the pids whose wait time
\* exceeds aging_interval at this call (decided by the clock).
Priority_apply_aging(st, aged) ==
    IF ~st.scheduler.enable_aging THEN st
    ELSE
    LET qs == st.scheduler.queues
        hits(o) == Cardinality({pl \in aged \X (1..Len(qs)) :
                                    FirstWithPid(st, qs[pl[2]], pl[1]) = o})
    IN  [st EXCEPT !.pcbs = [o \in Oids |->
            IF st.pcbs[o] = NoPcb \/ hits(o) = 0 THEN st.pcbs[o]
            ELSE [st.pcbs[o] EXCEPT !.priority = Max(0, @ - hits(o))]]]

\* A scan that starts at the lowest priority: the last non-empty queue.
LastNonEmpty(qs) ==
    IF \E i \in 1..Len(qs) : qs[i] # <<>>
    THEN CHOOSE i \in 1..Len(qs) : qs[i] # <<>> /\ \A j \in (i+1)..Len(qs) : qs[j] = <<>>
    ELSE 0

\* The first non-empty queue, scanning levels low to high (0: all empty).
FirstNonEmpty(qs) ==
    IF \E i \in 1..Len(qs) : qs[i] # <<>>
    THEN CHOOSE i \in 1..Len(qs) : qs[i] # <<>> /\ \A j \in 1..(i-1) : qs[j] = <<>>
    ELSE 0

PopFirstNonEmpty(st) ==
    LET i == FirstNonEmpty(st.scheduler.queues)
    IN  IF i = 0 THEN [st EXCEPT !.ret = None]
        ELSE LET o == Head(st.scheduler.queues[i])
             IN  [st EXCEPT !.scheduler.queues[i] = Tail(@),
                            !.pcbs[o].time_remaining = st.pcbs[o].time_slice,
                            !.scheduler.wait_times = DictPop(@, st.pcbs[o].pid),
                            !.ret = o]

\* PriorityScheduler.get_next_process
Priority_get_next_process(st, aged) ==
    PopFirstNonEmpty(Priority_apply_aging(st, aged))

\* MultiLevelFeedbackQueueScheduler.add_process
Mlfq_add_process(st, o) ==
    LET pid == st.pcbs[o].pid
    IN  [st EXCEPT !.pcbs[o].time_slice = quantums(0),
                   !.pcbs[o].time_remaining = quantums(0),
                   !.scheduler = [Enqueue(@, 0, o) EXCEPT
                        !.process_queue[pid] = 0,
                        !.wait_times = DictSet(@, pid)]]

\* MultiLevelFeedbackQueueScheduler.remove_process
Mlfq_remove_process(st, o) ==
    LET pid == st.pcbs[o].pid
        idx == st.scheduler.process_queue[pid]
        sch == IF 0 <= idx /\ idx < NumQueues
               THEN Dequeue(st.scheduler, idx, o) ELSE st.scheduler
    IN  [st EXCEPT !.scheduler = [sch EXCEPT !.process_queue[pid] = -1,
                                             !.wait_times = DictPop(@, pid)]]

\* One iteration of the loop of MultiLevelFeedbackQueueScheduler._apply_aging
Mlfq_boost(st, pid) ==
    LET cur == st.scheduler.process_queue[pid]
        o == IF cur > 0 THEN FirstWithPid(st, st.scheduler.queues[cur + 1], pid)
             ELSE None
    IN  IF o = None THEN st
        ELSE [st EXCEPT !.scheduler = [Enqueue(Dequeue(@, cur, o), 0, o)
                                           EXCEPT !.process_queue[pid] = 0],
                        !.pcbs[o].time_slice = quantums(0)]

\* MultiLevelFeedbackQueueScheduler._apply_aging: the aged pids, in the
\* order of the _wait_times dict.
RECURSIVE Mlfq_apply_aging(_, _, _)
Mlfq_apply_aging(st, keys, aged) ==
    IF keys = <<>> THEN st
    ELSE Mlfq_apply_aging(
            IF Head(keys) \in aged THEN Mlfq_boost(st, Head(keys)) ELSE st,
            Tail(keys), aged)

\* MultiLevelFeedbackQueueScheduler.get_next_process
Mlfq_get_next_process(st, aged) ==
    PopFirstNonEmpty(Mlfq_apply_aging(st, st.scheduler.wait_times, aged))

\* MultiLevelFeedbackQueueScheduler.time_slice_expired
Mlfq_time_slice_expired(st, o) ==
    LET pid == st.pcbs[o].pid
        got == st.scheduler.process_queue[pid]
        current_idx == IF got = -1 THEN 0 ELSE got
        new_idx == Min(current_idx + 1, NumQueues - 1)
    IN  [st EXCEPT !.pcbs[o].time_slice = quantums(new_idx),
                   !.pcbs[o].time_remaining = quantums(new_idx),
                   !.scheduler = [Enqueue(@, new_idx, o) EXCEPT
                        !.process_queue[pid] = new_idx,
                        !.wait_times = DictSet(@, pid)]]

\* A yield_process that sends the process back to the top queue.
Mlfq_yield_process_top(st, o) ==
    [st EXCEPT !.scheduler = [Enqueue(@, 0, o) EXCEPT
                        !.process_queue[st.pcbs[o].pid] = 0,
                        !.wait_times = DictSet(@, st.pcbs[o].pid)]]

\* MultiLevelFeedbackQueueScheduler.yield_process
Mlfq_yield_process(st, o) ==
    LET pid == st.pcbs[o].pid
        got == st.scheduler.process_queue[pid]
        current_idx == IF got = -1 THEN 0 ELSE got
    IN  [st EXCEPT !.scheduler = [Enqueue(@, current_idx, o) EXCEPT
                        !.wait_times = DictSet(@, pid)]]

\* SchedulerAlgorithm: dispatch on the class of the instance
add_process(st, o) ==
    CASE st.scheduler.alg = "round_robin" -> RoundRobin_add_process(st, o)
      [] st.scheduler.alg = "priority" -> Priority_add_process(st, o)
      [] OTHER -> Mlfq_add_process(st, o)

remove_process(st, o) ==
    CASE st.scheduler.alg = "round_robin" -> RoundRobin_remove_process(st, o)
      [] st.scheduler.alg = "priority" -> Priority_remove_process(st, o)
      [] OTHER -> Mlfq_remove_process(st, o)

get_next_process(st, aged) ==
    CASE st.scheduler.alg = "round_robin" -> RoundRobin_get_next_process(st)
      [] st.scheduler.alg = "priority" -> Priority_get_next_process(st, aged)
      [] OTHER -> Mlfq_get_next_process(st, aged)

time_slice_expired(st, o) ==
    CASE st.scheduler.alg = "round_robin" -> RoundRobin_time_slice_expired(st, o)
      [] st.scheduler.alg = "priority" -> Priority_add_process(st, o)
      [] OTHER -> Mlfq_time_slice_expired(st, o)

yield_process(st, o) ==
    CASE st.scheduler.alg = "round_robin" -> RoundRobin_yield_process(st, o)
      [] st.scheduler.alg = "priority" -> Priority_add_process(st, o)
      [] OTHER -> Mlfq_yield_process(st, o)

\* SchedulerAlgorithm.count
count(sch) ==
    LET RECURSIVE total(_)
        total(i) == IF i = 0 THEN 0 ELSE Len(sch.queues[i]) + total(i - 1)
    IN  total(Len(sch.queues))

\* -------------------------------------------------------- context switcher
\* ContextSwitcher._save_context
save_context(st, o) ==
    LET c == st.pcbs[o].context
    IN  [st EXCEPT !.contexts[c] =
            [instruction_pointer |->
                 (st.contexts[c].instruction_pointer + st.pcbs[o].time_slice) % IpModulus,
             stack_pointer |-> st.contexts[c].stack_pointer,
             flags |-> 0,
             registers |-> {<<i, i * 1000 + st.pcbs[o].pid>> : i \in 0..(NumRegisters - 1)}]]

\* ContextSwitcher.switch
switch(st, from_process, to_process) ==
    LET s1 == IF from_process # None
              THEN [save_context(st, from_process) EXCEPT
                        !.pcbs[from_process].state = "READY"]
              ELSE st
        s2 == IF to_process # None
              THEN [s1 EXCEPT !.pcbs[to_process].state = "RUNNING"]
              ELSE s1
    IN  [s2 EXCEPT !.current_process = to_process]

\* A fork_context that hands the child the parent's CpuContext object itself.
fork_context_shared(st, parent, child) ==
    [st EXCEPT !.pcbs[child].context = st.pcbs[parent].context,
               !.pcbs[child].signal_handlers = st.pcbs[parent].signal_handlers,
               !.pcbs[child].signal_mask = st.pcbs[parent].signal_mask]

\* ContextSwitcher.fork_context: the child gets a new CpuContext object
\* holding copies of the parent's values.
fork_context(st, parent, child) ==
    LET c == NewCtxId(st, child)
        src == st.contexts[st.pcbs[parent].context]
    IN  [st EXCEPT !.contexts[c] =
                        [instruction_pointer |-> src.instruction_pointer,
                         stack_pointer |-> src.stack_pointer,
                         flags |-> src.flags,
                         registers |-> src.registers],
                   !.pcbs[child].context = c,
                   !.pcbs[child].signal_handlers = st.pcbs[parent].signal_handlers,
                   !.pcbs[child].signal_mask = st.pcbs[parent].signal_mask]

\* ContextSwitcher.exec_context
exec_context(st, o) ==
    LET c == NewCtxId(st, o)
    IN  [st EXCEPT !.contexts[c] =
                        [instruction_pointer |-> 0, stack_pointer |-> StackTop,
                         flags |-> 0, registers |-> {}],
                   !.pcbs[o].context = c]

\* ContextSwitcher.get_current_pid
get_current_pid(st) ==
    IF st.current_process # None THEN st.pcbs[st.current_process].pid ELSE None

\* --------------------------------------------------------- process manager
Lookup(st, pid) == IF pid \in PIDs THEN st.processes[pid] ELSE None

\* A process count that leaves one process out.
process_count_short(st) ==
    Cardinality({p \in PIDs : /\ st.processes[p] # None
                               /\ st.pcbs[st.processes[p]].state # "ZOMBIE"}) - 1

\* ProcessManager.process_count
process_count(st) ==
    Cardinality({p \in PIDs : st.processes[p] # None
                               /\ st.pcbs[st.processes[p]].state # "ZOMBIE"})

\* One step of the probe of _generate_pid
NextProbe(st, pid) ==
    LET n == (pid % st.config.max_pid) + 1 IN IF n = 1 THEN 2 ELSE n

\* A pid generator that hands out _next_pid without looking at the table.
probe_unchecked(st, pid, attempts) == <<pid, attempts>>

RECURSIVE probe(_, _, _)
probe(st, pid, attempts) ==
    IF st.processes[pid] # None /\ attempts < st.config.max_pid
    THEN probe(st, NextProbe(st, pid), attempts + 1)
    ELSE <<pid, attempts>>

\* ProcessManager._generate_pid
generate_pid(st) ==
    LET r == probe(st, st.next_pid, 0)
    IN  IF r[2] >= st.config.max_pid
        THEN [st EXCEPT !.raised = "ProcessCreationError"]
        ELSE [st EXCEPT !.next_pid = NextProbe(st, r[1]), !.ret = r[1],
                        !.probes = r[2]]

LowestFree(st) == CHOOSE o \in FreeOids(st) : \A q \in FreeOids(st) : o <= q

\* ProcessManager.create_process from "Create PCB" on: the new process
\* object goes into the process table under pid, into the pid tree, into
\* its parent's children and into the scheduler.
create_pcb(g, pid, parent_pid, priority) ==
    IF FreeOids(g) = {} THEN [g EXCEPT !.raised = "HeapBound"]
    ELSE
    LET o == LowestFree(g)
        c == NewCtxId(g, o)
        s1 == [g EXCEPT !.pcbs[o] = ProcessControlBlock(pid, parent_pid, priority, c),
                        !.contexts[c] = CpuContext,
                        !.processes[pid] = o,
                        !.pid_tree[parent_pid] = Append(@, pid)]
        parent == s1.processes[parent_pid]
        s2 == IF parent # None
              THEN [s1 EXCEPT !.pcbs[parent] = add_child(@, pid)]
              ELSE s1
        s3 == add_process([s2 EXCEPT !.pcbs[o].state = "READY"], o)
    IN  [s3 EXCEPT !.ret = pid]

\* ProcessManager.create_process up to "Generate PID": the limit check and
\* the choice of the parent.  ret is the parent pid.
create_enter(st, parent_arg) ==
    IF process_count(st) >= st.config.max_processes
    THEN [st EXCEPT !.raised = "ProcessCreationError"]
    ELSE
    LET given == IF parent_arg = None
                 THEN (IF get_current_pid(st) # None THEN get_current_pid(st) ELSE 1)
                 ELSE parent_arg
    IN  [st EXCEPT !.ret = IF st.processes[given] = None THEN 1 ELSE given]

\* ProcessManager.create_process
create_process(st, parent_arg, priority) ==
    IF process_count(st) >= st.config.max_processes
    THEN [st EXCEPT !.raised = "ProcessCreationError"]
    ELSE
    LET given == IF parent_arg = None
                 THEN (IF get_current_pid(st) # None THEN get_current_pid(st) ELSE 1)
                 ELSE parent_arg
        parent_pid == IF st.processes[given] = None THEN 1 ELSE given
        g == generate_pid(st)
    IN  IF g.raised # "" THEN g
        ELSE create_pcb(g, g.ret, parent_pid, priority)

\* A _remove_process that leaves the process in the table.
remove_from_system_kept(st, pid) == st

\* ProcessManager._remove_process
remove_from_system(st, pid) ==
    LET o == st.processes[pid]
    IN  IF o = None THEN st
        ELSE
        LET pp == st.pcbs[o].parent_pid
            parent == Lookup(st, pp)
            s1 == IF parent # None
                  THEN [st EXCEPT !.pcbs[parent] = remove_child(@, pid)]
                  ELSE st
        IN  [s1 EXCEPT !.pid_tree[pp] = IF InSeq(@, pid) THEN RemoveFirst(@, pid) ELSE @,
                       !.processes[pid] = None,
                       !.zombie_list = IF InSeq(@, pid) THEN RemoveFirst(@, pid) ELSE @]

\* The pids reachable from pid through children lists.
RECURSIVE Reach(_, _, _)
Reach(st, frontier, seen) ==
    LET kids == UNION {Range(st.pcbs[st.processes[p]].children) :
                          p \in {q \in frontier : st.processes[q] # None}} \ seen
    IN  IF kids = {} THEN seen ELSE Reach(st, kids, seen \cup kids)

Descendants(st, pid) == Reach(st, {pid}, {})

NotTerminated(st) ==
    {p \in PIDs : st.processes[p] # None /\ st.pcbs[st.processes[p]].state # "ZOMBIE"}

\* ProcessManager.terminate_process.  `trace` records, at the moment the
\* state of pid is first written (line 301), the descendants pid had on
\* entry and those of them that are still in the table and not ZOMBIE.
\* A terminate_process whose loop over the children does nothing.
terminate_children_skipped(st, kids) == st

\* A terminate_process that does not recognise a process it already
\* terminated.
already_terminated_never(st, o) == FALSE

\* ProcessManager.terminate_process, the early return for a zombie
already_terminated(st, o) == st.pcbs[o].state = "ZOMBIE"

RECURSIVE terminate_process(_, _, _)
RECURSIVE terminate_children(_, _)
terminate_children(st, kids) ==
    IF kids = <<>> THEN st
    ELSE terminate_children(
            [terminate_process(st, Head(kids), 1) EXCEPT !.raised = ""], Tail(kids))

terminate_process(st, pid, exit_code) ==
    LET o == st.processes[pid]
    IN  IF o = None THEN [st EXCEPT !.raised = "ProcessNotFoundError"]
        ELSE IF already_terminated(st, o) THEN st
        ELSE
        LET desc == Descendants(st, pid)
            s1 == terminate_children(st, st.pcbs[o].children)
            s2 == remove_process(s1, o)
            s3 == [s2 EXCEPT !.pcbs[o].state = "TERMINATED",
                             !.pcbs[o].exit_code = <<exit_code>>,
                             !.trace = Append(@, [pid |-> pid, descendants |-> desc,
                                                  unfinished |-> desc \cap NotTerminated(s2)])]
            parent == Lookup(s3, s3.pcbs[o].parent_pid)
            s4 == IF parent # None
                  THEN [s3 EXCEPT !.pcbs[parent] = remove_child(@, pid)]
                  ELSE s3
        IN  IF parent # None /\ s4.pcbs[parent].state # "ZOMBIE"
            THEN [s4 EXCEPT !.pcbs[o].state = "ZOMBIE",
                            !.zombie_list = Append(@, pid),
                            !.pcbs[parent] = pcb_send_signal(@, SIGCHLD)]
            ELSE remove_from_system(s4, pid)

\* ProcessManager.fork
fork(st, parent_arg) ==
    LET parent_pid == IF parent_arg = None
                      THEN (IF get_current_pid(st) # None THEN get_current_pid(st) ELSE 1)
                      ELSE parent_arg
        parent == st.processes[parent_pid]
    IN  IF parent = None THEN [st EXCEPT !.raised = "ForkError"]
        ELSE
        LET c == create_process(st, parent_pid, st.pcbs[parent].priority)
        IN  IF c.raised = "HeapBound" THEN c
            ELSE IF c.raised # "" THEN [c EXCEPT !.raised = "ForkError"]
            ELSE fork_context(c, parent, c.processes[c.ret])

\* ProcessManager.exec
exec(st, pid) ==
    LET o == st.processes[pid]
    IN  IF o = None THEN [st EXCEPT !.raised = "ExecError"]
        ELSE exec_context(st, o)

\* ProcessManager.send_signal
send_signal(st, pid, signal) ==
    LET o == st.processes[pid]
    IN  IF o = None THEN [st EXCEPT !.raised = "ProcessNotFoundError"]
        ELSE [st EXCEPT !.pcbs[o] = pcb_send_signal(@, signal)]

\* A kill whose SIGCONT marks the process READY without queueing it.
kill_without_requeue(st, pid, signal) ==
    LET o == st.processes[pid]
    IN  IF o = None THEN [st EXCEPT !.raised = "ProcessNotFoundError"]
        ELSE IF signal = SIGKILL THEN terminate_process(st, pid, -9)
        ELSE IF signal = SIGSTOP
             THEN remove_process([st EXCEPT !.pcbs[o].state = "STOPPED"], o)
        ELSE IF signal = SIGCONT
             THEN IF st.pcbs[o].state = "STOPPED"
                  THEN [st EXCEPT !.pcbs[o].state = "READY"]
                  ELSE st
        ELSE send_signal(st, pid, signal)

\* ProcessManager.kill
kill(st, pid, signal) ==
    LET o == st.processes[pid]
    IN  IF o = None THEN [st EXCEPT !.raised = "ProcessNotFoundError"]
        ELSE IF signal = SIGKILL THEN terminate_process(st, pid, -9)
        ELSE IF signal = SIGSTOP
             THEN remove_process([st EXCEPT !.pcbs[o].state = "STOPPED"], o)
        ELSE IF signal = SIGCONT
             THEN IF st.pcbs[o].state = "STOPPED"
                  THEN add_process([st EXCEPT !.pcbs[o].state = "READY"], o)
                  ELSE st
        ELSE send_signal(st, pid, signal)

\* ProcessManager.reap_zombies
RECURSIVE reap_loop(_, _)
reap_loop(st, zs) ==
    IF zs = <<>> THEN st
    ELSE
    LET pid == Head(zs)
        o == st.processes[pid]
    IN  IF /\ o # None
           /\ st.pcbs[o].parent_pid # 0
           /\ (st.pcbs[o].parent_pid = 1 \/ Lookup(st, st.pcbs[o].parent_pid) = None)
        THEN reap_loop([remove_from_system(st, pid) EXCEPT !.ret = Append(@, pid)], Tail(zs))
        ELSE reap_loop(st, Tail(zs))

reap_zombies(st) == reap_loop([st EXCEPT !.ret = <<>>], st.zombie_list)

\* ProcessManager.schedule
schedule(st) ==
    LET current == st.current_process
    IN  IF current = None THEN st
        ELSE
        LET s1 == [st EXCEPT !.pcbs[current].time_remaining = @ - 1]
        IN  IF s1.pcbs[current].time_remaining <= 0
            THEN LET s2 == get_next_process(time_slice_expired(s1, current), {})
                     next_pcb == s2.ret
                 IN  IF next_pcb # None /\ next_pcb # current
                     THEN switch(s2, current, next_pcb)
                     ELSE s2
            ELSE s1

\* ProcessManager._handle_signal
handle_signal(st, o, signal) ==
    IF signal \in st.pcbs[o].signal_handlers THEN st
    ELSE IF signal \in SIGNAL_TERMINATE
         THEN terminate_process(st, st.pcbs[o].pid, 128 + signal)
    ELSE IF signal \in SIGNAL_STOP
         THEN remove_process([st EXCEPT !.pcbs[o].state = "STOPPED"], o)
    ELSE st

\* ProcessManager.tick
tick(st) ==
    LET current == st.current_process
        s1 == IF current # None /\ st.pcbs[current].pending_signals # <<>>
              THEN handle_signal(
                      [st EXCEPT !.pcbs[current].pending_signals = Tail(@)],
                      current, Head(st.pcbs[current].pending_signals))
              ELSE st
    IN  IF s1.raised # "" THEN s1
        ELSE IF s1.zombie_list # <<>> THEN reap_zombies(s1)
        ELSE s1

\* -------------------------------------------------------- buddy allocator
\* dict[key] = value and dict.pop(key, None)
Put(f, k, v) == [x \in DOMAIN f \cup {k} |-> IF x = k THEN v ELSE f[x]]
Del(f, k) == [x \in DOMAIN f \ {k} |-> f[x]]

\* BuddyAllocator.allocate returns None
NoAddress == -1

\* Python's ^ on non-negative integers
RECURSIVE Xor(_, _)
Xor(a, b) ==
    IF a = 0 THEN b
    ELSE IF b = 0 THEN a
    ELSE (((a % 2) + (b % 2)) % 2) + 2 * Xor(a \div 2, b \div 2)

\* BuddyAllocator._size_to_order
RECURSIVE order_from(_, _)
order_from(order, size) ==
    IF Pow(2, order) < size THEN order_from(order + 1, size) ELSE order
size_to_order(size) == order_from(0, size)

\* BuddyAllocator.__init__: one free block, the arena, in the top list
BuddyAllocator(total_size, min_block_size) ==
    LET max_order == size_to_order(total_size)
    IN  [total_size |-> total_size, min_block_size |-> min_block_size,
         max_order |-> max_order,
         free_lists |-> [order \in 0..max_order |->
                           IF order = max_order
                           THEN <<[address |-> 0, size |-> total_size]>>
                           ELSE <<>>],
         allocated |-> <<>>]

\* MemoryBlock.split: the right half goes to the free list of its order
\* and the left half is split on, down to the order asked for.
RECURSIVE split(_, _, _, _)
split(free_lists, block, o, order) ==
    IF o < order THEN [free_lists |-> free_lists, block |-> block]
    ELSE LET half_size == block.size \div 2
             left == [address |-> block.address, size |-> half_size]
             right == [address |-> block.address + half_size, size |-> half_size]
         IN  split([free_lists EXCEPT ![o] = Append(@, right)], left, o - 1, order)

\* A split that drops the right halves.
find_free_block_left_only(b, order) ==
    IF order > b.max_order THEN [found |-> FALSE, b |-> b]
    ELSE LET higher == {o \in order..b.max_order : b.free_lists[o] # <<>>}
         IN  IF higher = {} THEN [found |-> FALSE, b |-> b]
             ELSE LET from == CHOOSE o \in higher : \A x \in higher : o <= x
                      block == Head(b.free_lists[from])
                  IN  [found |-> TRUE,
                       b |-> [b EXCEPT !.free_lists[from] = Tail(@)],
                       block |-> [address |-> block.address,
                                  size |-> Pow(2, order)]]

\* BuddyAllocator._find_free_block: the first block of the lowest non-empty
\* list at or above the order, split down to it
find_free_block(b, order) ==
    IF order > b.max_order THEN [found |-> FALSE, b |-> b]
    ELSE LET higher == {o \in order..b.max_order : b.free_lists[o] # <<>>}
         IN  IF higher = {} THEN [found |-> FALSE, b |-> b]
             ELSE LET from == CHOOSE o \in higher : \A x \in higher : o <= x
                      rest == [b.free_lists EXCEPT ![from] = Tail(@)]
                      r == split(rest, Head(b.free_lists[from]), from - 1, order)
                  IN  [found |-> TRUE, b |-> [b EXCEPT !.free_lists = r.free_lists],
                       block |-> r.block]

\* BuddyAllocator.allocate: the allocator afterwards and the address returned
buddy_allocate(b, size) ==
    LET rounded == IF size < b.min_block_size THEN b.min_block_size ELSE size
        r == find_free_block(b, size_to_order(rounded))
    IN  IF ~r.found THEN [b |-> b, ret |-> NoAddress]
        ELSE [b |-> [r.b EXCEPT !.allocated = Put(@, r.block.address, r.block)],
              ret |-> r.block.address]

\* A coalesce that never merges: the block goes back to the list of its order.
coalesce_unmerged(b, block, order) ==
    [b EXCEPT !.free_lists[order] = Append(@, block)]

\* BuddyAllocator._coalesce: merge with the buddy while it is free
RECURSIVE coalesce(_, _, _)
coalesce(b, block, order) ==
    IF order >= b.max_order
    THEN [b EXCEPT !.free_lists[order] = Append(@, block)]
    ELSE LET buddy_address == Xor(block.address, block.size)
             list == b.free_lists[order]
             at == {i \in 1..Len(list) : list[i].address = buddy_address}
         IN  IF at = {}
             THEN [b EXCEPT !.free_lists[order] = Append(@, block)]
             ELSE LET i == CHOOSE i \in at : \A j \in at : i <= j
                      buddy == list[i]
                      merged == [address |-> IF block.address < buddy.address
                                             THEN block.address ELSE buddy.address,
                                 size |-> block.size * 2]
                  IN  coalesce([b EXCEPT !.free_lists[order] =
                                    SubSeq(list, 1, i - 1) \o SubSeq(list, i + 1, Len(list))],
                               merged, order + 1)

\* BuddyAllocator.free: the allocator afterwards and the value returned
buddy_free(b, address) ==
    IF address \notin DOMAIN b.allocated THEN [b |-> b, ret |-> FALSE]
    ELSE LET block == b.allocated[address]
         IN  [b |-> coalesce([b EXCEPT !.allocated = Del(@, address)], block,
                             size_to_order(block.size)),
              ret |-> TRUE]

\* --------------------------------------------------------- memory manager
HEAP_START == 536870912

\* FrameAllocator.allocate returns None
NoFrame == -1

\* The pids whose calls are explored: user processes.  The kernel (pid 0)
\* keeps the address space initialize gives it.
MemPids == 1..MaxMemPid

STACK_START == 2147418112

\* PageFlags values: the default of allocate, grow_heap and grow_stack, and
\* the same without WRITABLE
DefaultFlags == {"PRESENT", "WRITABLE", "USER"}
ReadOnly == {"PRESENT", "USER"}

\* AddressSpace.__init__
AddressSpace ==
    [regions |-> <<>>, page_table |-> <<>>, heap_end |-> HEAP_START,
     stack_end |-> STACK_START]

\* No allocate call is in progress.  A call in progress records where it
\* is (pc), its arguments and loop counter, and what the caller can compare
\* afterwards: its outcome, the state on entry and the number of frames
\* page faults took meanwhile.
NoCall ==
    [pc |-> "idle", pid |-> 0, size |-> 0, pages_needed |-> 0,
     virtual_start |-> 0, i |-> 0, ret |-> 0, raised |-> "",
     entry |-> <<>>, stolen |-> 0]

\* A process manager on its own has no memory manager attached: the
\* manager as __init__ leaves it, with the allocators initialize gives it
\* and the configured config.memory.max_memory_per_process.
NoMemory ==
    [total_frames |-> TotalFrames, allocated |-> {}, next_frame |-> 0,
     max_memory_per_process |-> MaxMemoryPerProcess,
     address_spaces |-> <<>>, process_memory |-> <<>>, lock |-> "", call |-> NoCall,
     buddy_allocator |-> BuddyAllocator(Pow(2, BuddyOrder), Pow(2, BuddyMinOrder))]

\* FrameAllocator.free_frames
free_frames(m) == m.total_frames - Cardinality(m.allocated)

\* FrameAllocator.used_frames
used_frames(m) == Cardinality(m.allocated)

\* A search that hands out _next_frame without looking whether it is free.
NextFrameUnchecked(m) ==
    IF Cardinality(m.allocated) >= m.total_frames THEN NoFrame ELSE m.next_frame

\* FrameAllocator.allocate: the frame it returns (NoFrame when none is free)
NextFrame(m) ==
    IF Cardinality(m.allocated) >= m.total_frames THEN NoFrame
    ELSE LET at(k) == (m.next_frame + k) % m.total_frames
             k == CHOOSE k \in 0..(m.total_frames - 1) :
                     /\ at(k) \notin m.allocated
                     /\ \A j \in 0..(k - 1) : at(j) \in m.allocated
         IN  at(k)

\* FrameAllocator.allocate: the allocator after a frame was handed out
frame_allocate(m, frame) ==
    [m EXCEPT !.allocated = @ \cup {frame},
              !.next_frame = (frame + 1) % m.total_frames]

\* FrameAllocator.free, for every frame of a set
frame_free(m, frames) == [m EXCEPT !.allocated = @ \ frames]

\* PageTable.map_page
map_page(table, virtual_page, physical_frame, flags) ==
    Put(table, virtual_page, [physical_frame |-> physical_frame, flags |-> flags])

\* FrameAllocator.free of one frame: the allocator afterwards and the value
\* returned
frame_free_one(m, frame) ==
    IF frame \in m.allocated
    THEN [m |-> frame_free(m, {frame}), ret |-> TRUE]
    ELSE [m |-> m, ret |-> FALSE]

\* An overlap test that only looks whether the new range starts inside a
\* region.
OverlapsAtStart(regions, start, end) ==
    \E n \in 1..Len(regions) : regions[n].start <= start /\ start < regions[n].end

\* MemoryRegion.overlaps against every region of the address space
Overlaps(regions, start, end) ==
    \E n \in 1..Len(regions) : regions[n].start < end /\ start < regions[n].end

\* AddressSpace.add_region: append and sort by start (the sort is stable)
add_region(regions, start, size, flags) ==
    LET before == SelectSeq(regions, LAMBDA r : r.start <= start)
        after == SelectSeq(regions, LAMBDA r : r.start > start)
    IN  before \o <<[start |-> start, end |-> start + size, flags |-> flags]>> \o after

\* AddressSpace.add_region with its overlap check: the address space
\* afterwards and the exception raised
space_add_region(space, start, size, flags) ==
    IF Overlaps(space.regions, start, start + size)
    THEN [space |-> space, raised |-> "ValueError"]
    ELSE [space |-> [space EXCEPT !.regions = add_region(@, start, size, flags)],
          raised |-> ""]

\* AddressSpace.grow_heap
grow_heap(space, increment) ==
    LET r == IF increment > 0
             THEN space_add_region(space, space.heap_end, increment, DefaultFlags)
             ELSE [space |-> space, raised |-> ""]
    IN  IF r.raised # "" THEN r
        ELSE [space |-> [r.space EXCEPT !.heap_end = space.heap_end + increment],
              raised |-> ""]

\* AddressSpace.grow_stack: the stack end moves before the region is added
grow_stack(space, size) ==
    space_add_region([space EXCEPT !.stack_end = @ - size],
                     space.stack_end - size, size, DefaultFlags)

\* AddressSpace.find_region: index of the first region containing address
find_region(regions, address) ==
    IF \E n \in 1..Len(regions) : regions[n].start <= address /\ address < regions[n].end
    THEN CHOOSE n \in 1..Len(regions) :
            /\ regions[n].start <= address /\ address < regions[n].end
            /\ \A j \in 1..(n - 1) :
                  ~(regions[j].start <= address /\ address < regions[j].end)
    ELSE 0

\* AddressSpace.remove_region: drop the first region that starts at start
remove_region(regions, start) ==
    IF \E n \in 1..Len(regions) : regions[n].start = start
    THEN LET n == CHOOSE n \in 1..Len(regions) :
                     /\ regions[n].start = start
                     /\ \A j \in 1..(n - 1) : regions[j].start # start
         IN  SubSeq(regions, 1, n - 1) \o SubSeq(regions, n + 1, Len(regions))
    ELSE regions

\* self._process_memory.get(pid, 0)
usage(m, pid) == IF pid \in DOMAIN m.process_memory THEN m.process_memory[pid] ELSE 0

\* MemoryManager.create_address_space, once it holds the lock
create_address_space(m, pid) ==
    IF pid \in DOMAIN m.address_spaces THEN m
    ELSE [m EXCEPT !.address_spaces = Put(@, pid, AddressSpace),
                   !.process_memory = Put(@, pid, 0)]

\* MemoryManager.initialize: nothing allocated, the kernel's address space
MemoryManager == create_address_space(NoMemory, 0)

\* What allocate leaves behind when it returns or raises: the lock released
\* (the with block exits) and the outcome for the caller.
Leave(m, ret, raised) ==
    [m EXCEPT !.lock = "", !.call.pc = "done", !.call.ret = ret, !.call.raised = raised]

\* MemoryManager.allocate after the page loop: account and return
allocate_return(m) ==
    LET c == m.call
        actual_size == c.pages_needed * PageSize
    IN  Leave([m EXCEPT !.process_memory = Put(@, c.pid, usage(m, c.pid) + actual_size),
                        !.address_spaces[c.pid].heap_end = c.virtual_start + actual_size],
              c.virtual_start, "")

\* A limit check that forgets the size of the request.
over_limit_usage_only(m, pid, size) ==
    pid # 0 /\ usage(m, pid) > m.max_memory_per_process

\* MemoryManager.allocate, the per-process memory limit check
over_limit(m, pid, size) ==
    pid # 0 /\ usage(m, pid) + size > m.max_memory_per_process

\* MemoryManager.allocate up to the page loop: limit check, lock, frame
\* check, address space, region.  A pid without an address space sends the
\* call into create_address_space, which asks for the lock the call holds.
allocate_enter(m, pid, size) ==
    LET pages_needed == (size + PageSize - 1) \div PageSize
        known == pid \in DOMAIN m.address_spaces
        c == [NoCall EXCEPT !.pid = pid, !.size = size, !.pages_needed = pages_needed,
                            !.entry = [usage |-> usage(m, pid),
                                       free_frames |-> free_frames(m),
                                       space |-> IF known THEN <<m.address_spaces[pid]>>
                                                 ELSE <<>>]]
        m0 == [m EXCEPT !.call = c]
        m1 == [m0 EXCEPT !.lock = "allocate"]
    IN  IF over_limit(m, pid, size)
        THEN Leave(m0, None, "MemoryAllocationError")
        ELSE IF free_frames(m1) < pages_needed
        THEN Leave(m1, None, "OutOfMemoryError")
        ELSE IF ~known
        THEN [m1 EXCEPT !.call.pc = "create_address_space"]
        ELSE
        LET space == m1.address_spaces[pid]
            virtual_start == space.heap_end
            region_size == pages_needed * PageSize
        IN  IF Overlaps(space.regions, virtual_start, virtual_start + region_size)
            THEN Leave(m1, None, "ValueError")
            ELSE
            LET m2 == [m1 EXCEPT !.address_spaces[pid].regions =
                                    add_region(@, virtual_start, region_size, DefaultFlags),
                                 !.call.virtual_start = virtual_start,
                                 !.call.pc = "map"]
            IN  IF pages_needed = 0 THEN allocate_return(m2) ELSE m2

\* MemoryManager.allocate, one turn of the page loop: take a frame and map
\* the page, or give back the frames of the pages mapped so far and raise.
allocate_map(m) ==
    LET c == m.call
        first_page == c.virtual_start \div PageSize
        table == m.address_spaces[c.pid].page_table
        frame == NextFrame(m)
    IN  IF frame = NoFrame
        THEN LET prev == {first_page + j : j \in 0..(c.i - 1)} \cap DOMAIN table
                 back == frame_free(m, {table[page].physical_frame : page \in prev})
             IN  Leave([back EXCEPT !.address_spaces[c.pid].page_table =
                                       [page \in DOMAIN table \ prev |-> table[page]]],
                       None, "OutOfMemoryError")
        ELSE LET m1 == [frame_allocate(m, frame) EXCEPT
                           !.address_spaces[c.pid].page_table =
                               map_page(@, first_page + c.i, frame, DefaultFlags),
                           !.call.i = c.i + 1]
             IN  IF c.i + 1 = c.pages_needed THEN allocate_return(m1) ELSE m1

\* MemoryManager.free: the manager afterwards and the exception raised
free(m, pid, address) ==
    IF pid \notin DOMAIN m.address_spaces
    THEN [m |-> m, raised |-> "MemoryDeallocationError"]
    ELSE
    LET space == m.address_spaces[pid]
        n == find_region(space.regions, address)
    IN  IF n = 0 THEN [m |-> m, raised |-> "MemoryDeallocationError"]
        ELSE
        LET region == space.regions[n]
            start_page == region.start \div PageSize
            num_pages == (region.end - region.start) \div PageSize
            pages == {start_page + i : i \in 0..(num_pages - 1)}
                        \cap DOMAIN space.page_table
            back == frame_free(m, {space.page_table[page].physical_frame : page \in pages})
        IN  [m |-> [back EXCEPT
                      !.address_spaces[pid].page_table =
                          [page \in DOMAIN space.page_table \ pages
                              |-> space.page_table[page]],
                      !.address_spaces[pid].regions = remove_region(@, region.start),
                      !.process_memory =
                          Put(@, pid, usage(m, pid) - (region.end - region.start))],
             raised |-> ""]

\* MemoryManager.handle_page_fault: the manager afterwards and the value
\* returned
handle_page_fault(m, pid, address, access_type) ==
    IF pid \notin DOMAIN m.address_spaces THEN [m |-> m, ret |-> FALSE]
    ELSE
    LET space == m.address_spaces[pid]
        n == find_region(space.regions, address)
        page_num == address \div PageSize
    IN  IF n = 0 THEN [m |-> m, ret |-> FALSE]
        ELSE IF access_type = "write" /\ "WRITABLE" \notin space.regions[n].flags
        THEN [m |-> m, ret |-> FALSE]
        ELSE IF page_num \in DOMAIN space.page_table THEN [m |-> m, ret |-> TRUE]
        ELSE IF NextFrame(m) = NoFrame THEN [m |-> m, ret |-> FALSE]
        ELSE [m |-> [frame_allocate(m, NextFrame(m)) EXCEPT
                        !.address_spaces[pid].page_table =
                            map_page(@, page_num, NextFrame(m), space.regions[n].flags)],
              ret |-> TRUE]

\* MemoryManager.allocate run from call to return without another call in
\* between
RECURSIVE allocate_run(_)
allocate_run(m) == IF m.call.pc = "map" THEN allocate_run(allocate_map(m)) ELSE m

\* PageTable.update_flags
update_flags(table, virtual_page, flags) ==
    IF virtual_page \in DOMAIN table
    THEN [table EXCEPT ![virtual_page].flags = flags]
    ELSE table

\* MemoryManager.protect: the manager afterwards and the exception raised
protect(m, pid, address, size, flags) ==
    IF pid \notin DOMAIN m.address_spaces
    THEN [m |-> m, raised |-> "MemoryProtectionError"]
    ELSE
    LET space == m.address_spaces[pid]
        n == find_region(space.regions, address)
        start_page == address \div PageSize
        num_pages == (size + PageSize - 1) \div PageSize
        RECURSIVE loop(_, _)
        loop(table, i) ==
            IF i = num_pages THEN table
            ELSE loop(update_flags(table, start_page + i, flags), i + 1)
    IN  IF n = 0 THEN [m |-> m, raised |-> "MemoryProtectionError"]
        ELSE [m |-> [m EXCEPT !.address_spaces[pid].regions[n].flags = flags,
                              !.address_spaces[pid].page_table = loop(@, 0)],
              raised |-> ""]

\* A destroy that drops the address space and keeps its frames marked used.
destroy_address_space_leaking(m, pid) ==
    [m EXCEPT !.address_spaces = Del(@, pid), !.process_memory = Del(@, pid)]

\* MemoryManager.destroy_address_space
destroy_address_space(m, pid) ==
    IF pid \notin DOMAIN m.address_spaces THEN m
    ELSE LET table == m.address_spaces[pid].page_table
             back == frame_free(m, {table[page].physical_frame : page \in DOMAIN table})
         IN  [back EXCEPT !.address_spaces = Del(@, pid),
                          !.process_memory = Del(@, pid)]

\* ------------------------------------------------------------------ state
\* The program state as one value, threaded through the operators above.
\* ret / raised: what the call returns or raises; probes: the occupied pids
\* _generate_pid stepped over; trace: see terminate_process.
Cur ==
    [config |-> config, pcbs |-> pcbs, contexts |-> contexts,
     processes |-> processes, pid_tree |-> pid_tree, zombie_list |-> zombie_list,
     next_pid |-> next_pid, scheduler |-> scheduler,
     current_process |-> current_process,
     ret |-> None, raised |-> "", probes |-> 0, trace |-> <<>>]

Bounded(st) ==
    /\ st.raised # "HeapBound"
    /\ \A o \in Oids : st.pcbs[o] # NoPcb => Len(st.pcbs[o].pending_signals) <= MaxPending
    /\ \A i \in 1..Len(st.scheduler.queues) : Len(st.scheduler.queues[i]) <= MaxQueue
    /\ Len(st.zombie_list) <= MaxZombies

Call(op, pid, sig, obs, r) ==
    [op |-> op, pid |-> pid, sig |-> sig, ret |-> r.ret, raised |-> r.raised,
     trace |-> r.trace, obs |-> obs]

Commit(r, call) ==
    /\ Bounded(r)
    /\ LET c == Collect(r)
       IN  /\ pcbs' = c.pcbs
           /\ contexts' = c.contexts
           /\ processes' = c.processes
           /\ pid_tree' = c.pid_tree
           /\ zombie_list' = c.zombie_list
           /\ next_pid' = c.next_pid
           /\ scheduler' = c.scheduler
           /\ current_process' = c.current_process
    /\ last' = call
    /\ UNCHANGED <<config, history, memory>>

NoObs == [none |-> TRUE]
NoHistory == [none |-> TRUE]

StateOf(st, pid) ==
    IF Lookup(st, pid) = None THEN "absent" ELSE st.pcbs[st.processes[pid]].state

IsQueued(sch, o) == \E i \in 1..Len(sch.queues) : InSeq(sch.queues[i], o)

TimesQueued(sch, o) ==
    LET RECURSIVE total(_)
        total(i) == IF i = 0 THEN 0
                    ELSE Occurrences(sch.queues[i], o) + total(i - 1)
    IN  total(Len(sch.queues))

\* ProcessManager.initialize under a configuration with the given max_pid
\* and max_processes:
\* round-robin scheduler, idle context switcher, init process (pid 1)
\* RUNNING and outside the scheduler.
InitializeManager(max_pid, max_processes) ==
    /\ config = [max_pid |-> max_pid, max_processes |-> max_processes]
    /\ pcbs = [o \in Oids |-> IF o = 1
                  THEN [ProcessControlBlock(1, 0, 0, 1) EXCEPT !.state = "RUNNING"]
                  ELSE NoPcb]
    /\ contexts = [c \in Oids |-> IF c = 1 THEN CpuContext ELSE NoCtx]
    /\ processes = [p \in PIDs |-> IF p = 1 THEN 1 ELSE None]
    /\ pid_tree = [p \in 0..MaxPid |-> IF p = 0 THEN <<1>> ELSE <<>>]
    /\ zombie_list = <<>>
    /\ next_pid = 2
    /\ scheduler = RoundRobinScheduler(Quantum)
    /\ current_process = None
    /\ last = [op |-> "initialize", pid |-> None, sig |-> None, ret |-> None,
               raised |-> "", trace |-> <<>>, obs |-> NoObs]

\* The same, with nothing remembered of earlier calls.
Initialize(max_pid, max_processes) ==
    /\ InitializeManager(max_pid, max_processes)
    /\ history = NoHistory

Init == Initialize(SmallMaxPid, MaxProcesses) /\ memory = NoMemory

InitLifecycle == Initialize(MaxPid, MaxProcesses) /\ memory = NoMemory

\* A configuration whose process limit is reached before the pids run out.
InitLimits == Initialize(MaxPid, SmallMaxProcesses) /\ memory = NoMemory

\* The pids callers pass: those the configuration allows.
CallerPids == 1..config.max_pid

\* The parent a call without parent_pid gets: the current process, else init.
DefaultParent(st) == IF get_current_pid(st) # None THEN get_current_pid(st) ELSE 1

CreateProcess ==
    \E parent \in CallerPids \cup {None} :
        LET r == create_process(Cur, parent, 20)
        IN  Commit(r, Call("create_process", None, None, [probes |-> r.probes], r))

Fork ==
    \E parent \in CallerPids \cup {None} :
        LET r == fork(Cur, parent)
            parent_pid == IF parent = None THEN DefaultParent(Cur) ELSE parent
        IN  Commit(r, Call("fork", parent_pid, None, [probes |-> r.probes], r))

Exec ==
    \E pid \in CallerPids :
        LET r == exec(Cur, pid)
        IN  Commit(r, Call("exec", pid, None, NoObs, r))

\* What a caller of terminate_process can observe about pid beforehand.
TerminateObs(st, pid) == [state |-> StateOf(st, pid)]

TerminateProcess ==
    \E pid \in CallerPids :
        LET r == terminate_process(Cur, pid, 0)
        IN  Commit(r, Call("terminate_process", pid, None, TerminateObs(Cur, pid), r))

\* What a caller of kill remembers of a SIGSTOP it sent: the state of the
\* process and count() before it, and whether the process was queued.  A
\* SIGCONT to the same pid directly after the SIGSTOP keeps the memory.
KillObs(st, pid, signal) ==
    IF signal = SIGSTOP /\ Lookup(st, pid) # None
    THEN [stop_state |-> StateOf(st, pid),
          stop_count |-> count(st.scheduler),
          stop_queued |-> IsQueued(st.scheduler, st.processes[pid])]
    ELSE IF /\ signal = SIGCONT
            /\ last.op = "kill" /\ last.sig = SIGSTOP /\ last.pid = pid
            /\ last.raised = ""
         THEN last.obs
    ELSE [stop_state |-> "", stop_count |-> -1, stop_queued |-> FALSE]

Kill(signals) ==
    \E pid \in CallerPids, signal \in signals :
        LET r == kill(Cur, pid, signal)
        IN  Commit(r, Call("kill", pid, signal, KillObs(Cur, pid, signal), r))

SendSignal(signals) ==
    \E pid \in CallerPids, signal \in signals :
        LET r == send_signal(Cur, pid, signal)
        IN  Commit(r, Call("send_signal", pid, signal, NoObs, r))

ReapZombies ==
    LET r == reap_zombies(Cur)
    IN  Commit(r, Call("reap_zombies", None, None, [reaped |-> r.ret],
                       [r EXCEPT !.ret = None]))

\* What the timer interrupt handler knows when it calls schedule: the
\* current process and whether this call uses up its quantum.
ScheduleObs(st) ==
    [current |-> st.current_process,
     expired |-> st.current_process # None
                 /\ st.pcbs[st.current_process].time_remaining - 1 <= 0]

Schedule ==
    LET r == [schedule(Cur) EXCEPT !.ret = None]
    IN  Commit(r, Call("schedule", get_current_pid(Cur), None, ScheduleObs(Cur), r))

Tick ==
    LET r == [tick(Cur) EXCEPT !.ret = None]
    IN  Commit(r, Call("tick", get_current_pid(Cur), None, NoObs, r))

\* The embedding kernel puts the idle CPU to work: it takes the scheduler's
\* next process and has the context switcher switch to it.
Dispatch ==
    /\ current_process = None
    /\ count(scheduler) > 0
    /\ LET n == get_next_process(Cur, {})
           r == [switch(n, None, n.ret) EXCEPT !.ret = None]
       IN  Commit(r, Call("switch", pcbs[n.ret].pid, None, NoObs, r))

\* Signals the callers of kill and send_signal pass.
KillSignals == {SIGKILL, SIGSTOP, SIGCONT, SIGTERM}
QueuedSignals == {SIGTERM}

\* Every operation of the process manager, on a table of SmallMaxPid pids.
Next ==
    \/ CreateProcess
    \/ Fork
    \/ Exec
    \/ TerminateProcess
    \/ Kill(KillSignals)
    \/ SendSignal(QueuedSignals)
    \/ ReapZombies
    \/ Schedule
    \/ Tick
    \/ Dispatch

Spec == Init /\ [][Next]_vars

\* The operations that create and end processes, on a table of MaxPid pids.
NextLifecycle ==
    \/ CreateProcess
    \/ Fork
    \/ TerminateProcess
    \/ Kill({SIGKILL})
    \/ ReapZombies

SpecLifecycle == InitLifecycle /\ [][NextLifecycle]_vars

\* The same operations under the configuration of InitLimits.
SpecLimits == InitLimits /\ [][NextLifecycle]_vars

\* The operations of fork and exec and the switching of processes.
NextContext ==
    \/ Fork
    \/ Exec
    \/ Schedule
    \/ Dispatch

SpecContext == InitLifecycle /\ [][NextContext]_vars

\* The operations that stop, continue, end and switch processes, on a table
\* of SmallMaxPid pids.
NextScheduling ==
    \/ CreateProcess
    \/ TerminateProcess
    \/ Kill({SIGSTOP, SIGCONT})
    \/ Schedule
    \/ Dispatch

SpecScheduling == Init /\ [][NextScheduling]_vars

\* ------------------------------------------------------ scheduler harness
\* A scheduler on its own, driven as the process manager and the unit tests
\* drive it: processes are added once, get_next_process selects one, and the
\* selected process comes back through time_slice_expired or yield_process.
\* `history` remembers
\*   selected: the process get_next_process returned last (None: given back);
\*   agings:   the calls of get_next_process at which some wait exceeded the
\*             aging interval;
\*   expired:  per process, its time-slice expiries since admission, counted
\*             up to ExpiryCap;
\* and, for the round-robin discipline, whose queue is the only record of
\* arrival order,
\*   ahead:    per process, the processes that were queued when it was last
\*             queued and have not been selected or removed since;
\*   waited:   per process, how many processes were queued when
\*             time_slice_expired last re-queued it (0: queued otherwise).
Levels == {0, 5}

\* Expiries are counted as far as the discipline tells them apart.
ExpiryCap(sch) == IF sch.alg = "mlfq" THEN MaxExpired ELSE 1

SchedulerOf(alg) ==
    CASE alg = "round_robin" -> RoundRobinScheduler(Quantum)
      [] alg = "priority" -> PriorityScheduler(Quantum, TRUE)
      [] OTHER -> MultiLevelFeedbackQueueScheduler

InitSched ==
    /\ config = [max_pid |-> MaxPid, max_processes |-> MaxProcesses]
    /\ \E alg \in {"round_robin", "priority", "mlfq"} : scheduler = SchedulerOf(alg)
    /\ \E prio \in [Oids -> Levels] :
          /\ scheduler.alg # "priority" => \A o \in Oids : prio[o] = 0
          /\ pcbs = [o \in Oids |->
                    [ProcessControlBlock(o, 1, prio[o], o) EXCEPT !.state = "READY"]]
    /\ contexts = [c \in Oids |-> CpuContext]
    /\ processes = [p \in PIDs |-> None]
    /\ pid_tree = [p \in 0..MaxPid |-> <<>>]
    /\ zombie_list = <<>>
    /\ next_pid = 2
    /\ current_process = None
    /\ last = [op |-> "initialize", pid |-> None, sig |-> None, ret |-> None,
               raised |-> "", trace |-> <<>>, obs |-> NoObs]
    /\ memory = NoMemory
    /\ history = [selected |-> None,
                  ahead |-> [o \in Oids |-> {}],
                  waited |-> [o \in Oids |-> 0],
                  expired |-> [o \in Oids |-> 0],
                  agings |-> 0]

Queued == QueuedOids(scheduler)

Fifo == scheduler.alg = "round_robin"

\* The keys a dict holds in front of key k: they were inserted earlier.
Before(keys, k) ==
    IF InSeq(keys, k) THEN {keys[i] : i \in 1..(FirstIndex(keys, k) - 1)} ELSE {}

\* The harness applies a scheduler call: only the scheduler and the process
\* objects it writes to change.
Apply(r, call, h) ==
    /\ pcbs' = r.pcbs
    /\ scheduler' = r.scheduler
    /\ last' = call
    /\ history' = h
    /\ UNCHANGED <<config, contexts, processes, pid_tree, zombie_list, next_pid,
                   current_process, memory>>

Requeued(o, by_expiry) ==
    [history EXCEPT !.selected = None,
                    !.ahead[o] = IF Fifo THEN Queued ELSE {},
                    !.waited[o] = IF Fifo /\ by_expiry THEN Cardinality(Queued) ELSE 0,
                    !.expired[o] = IF by_expiry THEN Min(@ + 1, ExpiryCap(scheduler))
                                   ELSE @]

AddProcess ==
    \E o \in Oids \ (Queued \cup {history.selected}) :
        LET r == add_process(Cur, o)
        IN  Apply(r, Call("add_process", pcbs[o].pid, None, NoObs, r),
                  [Requeued(o, FALSE) EXCEPT
                        !.selected = history.selected, !.expired[o] = 0])

RemoveProcess ==
    \E o \in Queued :
        LET r == remove_process(Cur, o)
        IN  Apply(r, Call("remove_process", pcbs[o].pid, None, NoObs, r),
                  [history EXCEPT !.ahead = [x \in Oids |-> @[x] \ {o}]])

\* `aged`: the pids whose wait exceeds the aging interval at this call.
GetNextProcess ==
    /\ history.selected = None
    /\ \E aged \in SUBSET (IF Fifo \/ history.agings >= MaxAgings THEN {}
                           ELSE Range(scheduler.wait_times)) :
        LET r == get_next_process(Cur, aged)
            o == r.ret
        IN  Apply(r,
                  Call("get_next_process", IF o = None THEN None ELSE pcbs[o].pid, None,
                       [ahead |-> IF o = None THEN {} ELSE history.ahead[o],
                        earlier |-> IF o = None THEN {}
                                    ELSE Before(scheduler.wait_times, pcbs[o].pid)], r),
                  [history EXCEPT !.selected = o,
                                  !.ahead = [x \in Oids |-> IF x = o THEN {} ELSE @[x] \ {o}],
                                  !.agings = IF aged = {} THEN @ ELSE @ + 1])

TimeSliceExpired ==
    /\ history.selected # None
    /\ LET o == history.selected
           r == time_slice_expired(Cur, o)
       IN  Apply(r, Call("time_slice_expired", pcbs[o].pid, None, NoObs, r),
                 Requeued(o, TRUE))

YieldProcess ==
    /\ history.selected # None
    /\ LET o == history.selected
           r == yield_process(Cur, o)
       IN  Apply(r, Call("yield_process", pcbs[o].pid, None, NoObs, r),
                 Requeued(o, FALSE))

NextSched ==
    \/ AddProcess
    \/ RemoveProcess
    \/ GetNextProcess
    \/ TimeSliceExpired
    \/ YieldProcess

SpecSched == InitSched /\ [][NextSched]_vars

\* Signals: creation, SIGKILL through kill, signals queued through
\* send_signal, and their delivery to the current process by tick.
PendingSignals == {SIGKILL, SIGSEGV, SIGTSTP}

NextSignals ==
    \/ CreateProcess
    \/ Kill({SIGKILL})
    \/ SendSignal(PendingSignals)
    \/ Tick
    \/ Dispatch

SpecSignals == Init /\ [][NextSignals]_vars

\* ---------------------------------------------------- memory manager calls
\* The memory manager beside an initialized process manager.  One caller
\* issues create_address_space, allocate and free;
\* allocate runs page by page, and page faults, which take no lock, arrive
\* at any moment in between.
InitMemory == Initialize(SmallMaxPid, MaxProcesses) /\ memory = MemoryManager

\* Request sizes: nothing, less than a page, more than a page, more than a
\* process may hold.
AllocSizes == {0, 1, PageSize + 1, MaxMemoryPerProcess + 1}

\* The page-aligned heap addresses callers use.
Addresses == {HEAP_START + k * PageSize : k \in 0..(MaxHeapPages - 1)}

\* The record of a completed call; sig holds the call's second argument.
MemCall(op, pid, arg, ret, raised, obs) ==
    [op |-> op, pid |-> pid, sig |-> arg, ret |-> ret, raised |-> raised,
     trace |-> <<>>, obs |-> obs]

MemStep(m, call) ==
    /\ memory' = m
    /\ last' = call
    /\ UNCHANGED <<config, pcbs, contexts, processes, pid_tree, zombie_list,
                   next_pid, scheduler, current_process, history>>

\* The caller is between calls.
Idle == memory.call.pc = "idle" /\ memory.lock = ""

\* An allocate call has moved: it is still under way, or it is over and
\* the caller sees its outcome and, of a successful call, remembers the usage
\* counter, the free frames and the heap end it started from.
Settle(m) ==
    IF m.call.pc = "done"
    THEN MemStep([m EXCEPT !.call = NoCall],
                 MemCall("allocate", m.call.pid, m.call.size, m.call.ret, m.call.raised,
                         IF m.call.raised = ""
                         THEN [usage |-> m.call.entry.usage,
                               free_frames |-> m.call.entry.free_frames,
                               heap_end |-> m.call.entry.space[1].heap_end,
                               stolen |-> m.call.stolen]
                         ELSE NoObs))
    ELSE MemStep(m, last)

CreateAddressSpace ==
    \E pid \in MemPids :
        /\ Idle
        /\ MemStep(create_address_space(memory, pid),
                   MemCall("create_address_space", None, None, None, "", NoObs))

Allocate ==
    \E pid \in MemPids, size \in AllocSizes :
        /\ Idle
        /\ pid \in DOMAIN memory.address_spaces
           => /\ memory.address_spaces[pid].heap_end + size
                    <= HEAP_START + MaxHeapPages * PageSize
              /\ Len(memory.address_spaces[pid].regions) < MaxRegions
        /\ Settle(allocate_enter(memory, pid, size))

AllocateMap ==
    /\ memory.call.pc = "map"
    /\ Settle(allocate_map(memory))

Free ==
    \E pid \in MemPids, address \in Addresses :
        /\ Idle
        /\ LET r == free(memory, pid, address)
           IN  /\ usage(r.m, pid) >= -MaxMemoryPerProcess
               /\ MemStep(r.m, MemCall("free", pid, address, None, r.raised, NoObs))

HandlePageFault ==
    \E pid \in MemPids, address \in Addresses :
        LET r == handle_page_fault(memory, pid, address, "read")
            took == free_frames(r.m) < free_frames(memory)
        IN  MemStep(IF took /\ memory.call.pc # "idle"
                    THEN [r.m EXCEPT !.call.stolen = @ + 1]
                    ELSE r.m,
                    MemCall("handle_page_fault", None, None, r.ret, "", NoObs))

NextMemory ==
    \/ CreateAddressSpace
    \/ Allocate
    \/ AllocateMap
    \/ Free
    \/ HandlePageFault

SpecMemory == InitMemory /\ [][NextMemory]_vars

\* ---------------------------------------------------------- signal mask
\* The signal interface of a process control block: signals are sent to it
\* through the process manager, its owner takes them with get_next_signal,
\* and signal_mask is a public attribute, a set the owner adds signals to.
GetNextSignal ==
    \E pid \in CallerPids :
        /\ Lookup(Cur, pid) # None
        /\ LET o == processes[pid]
               r == get_next_signal(pcbs[o])
           IN  Commit([Cur EXCEPT !.pcbs[o] = r.pcb, !.ret = r.ret],
                      Call("get_next_signal", pid, None,
                           [pending |-> pcbs[o].pending_signals,
                            mask |-> pcbs[o].signal_mask],
                           [Cur EXCEPT !.ret = r.ret]))

BlockSignal ==
    \E pid \in CallerPids, signal \in PendingSignals :
        /\ Lookup(Cur, pid) # None
        /\ LET r == [Cur EXCEPT !.pcbs[processes[pid]].signal_mask = @ \cup {signal}]
           IN  Commit(r, Call("signal_mask.add", pid, signal, NoObs, r))

NextMask ==
    \/ SendSignal(PendingSignals)
    \/ GetNextSignal
    \/ BlockSignal

SpecMask == Init /\ [][NextMask]_vars

\* ------------------------------------------- memory manager, serialized
\* The same manager with its callers serialized: every call, page faults
\* included, runs from start to return before the next one starts.
ProtectSizes == {1, 2 * PageSize}
FlagChoices == {DefaultFlags, ReadOnly}
AccessTypes == {"read", "write"}

AllocateCall ==
    \E pid \in MemPids, size \in AllocSizes :
        /\ Idle
        /\ pid \in DOMAIN memory.address_spaces
           => /\ memory.address_spaces[pid].heap_end + size
                    <= HEAP_START + MaxHeapPages * PageSize
              /\ Len(memory.address_spaces[pid].regions) < MaxRegions
        /\ Settle(allocate_run(allocate_enter(memory, pid, size)))

Protect ==
    \E pid \in MemPids, address \in Addresses, size \in ProtectSizes,
       flags \in FlagChoices :
        /\ Idle
        /\ LET r == protect(memory, pid, address, size, flags)
           IN  MemStep(r.m, MemCall("protect", pid, address, None, r.raised, NoObs))

PageFault ==
    \E pid \in MemPids, address \in Addresses, access_type \in AccessTypes :
        LET r == handle_page_fault(memory, pid, address, access_type)
        IN  MemStep(r.m, MemCall("handle_page_fault", pid, address, None, "",
                                 [access_type |-> access_type, handled |-> r.ret]))

DestroyAddressSpace ==
    \E pid \in MemPids :
        /\ Idle
        /\ MemStep(destroy_address_space(memory, pid),
                   MemCall("destroy_address_space", pid, None, None, "", NoObs))

NextPaging ==
    \/ CreateAddressSpace
    \/ AllocateCall
    \/ Free
    \/ Protect
    \/ PageFault
    \/ DestroyAddressSpace

SpecPaging == InitMemory /\ [][NextPaging]_vars

\* -------------------------------------------------------- address space
\* An AddressSpace used on its own: the one of pid 1, with add_region,
\* remove_region, grow_heap and grow_stack called on it directly.
InitSpace ==
    /\ Initialize(SmallMaxPid, MaxProcesses)
    /\ memory = create_address_space(MemoryManager, 1)

RegionStarts == {HEAP_START + k : k \in 0..(MaxGrowth - 1)}
RegionSizes == 0..2

SpaceStep(r, op, arg, size) ==
    /\ Len(r.space.regions) <= MaxSpaceRegions
    /\ r.space.heap_end \in HEAP_START..(HEAP_START + MaxGrowth)
    /\ r.space.stack_end \in (STACK_START - MaxGrowth)..STACK_START
    /\ MemStep([memory EXCEPT !.address_spaces[1] = r.space],
               MemCall(op, 1, arg, None, r.raised, [size |-> size]))

AddRegion ==
    \E start \in RegionStarts, size \in RegionSizes :
        SpaceStep(space_add_region(memory.address_spaces[1], start, size, DefaultFlags),
                  "add_region", start, size)

RemoveRegion ==
    \E start \in RegionStarts \cup {STACK_START - k : k \in 1..MaxGrowth} :
        SpaceStep([space |-> [memory.address_spaces[1] EXCEPT
                                 !.regions = remove_region(@, start)],
                   raised |-> ""],
                  "remove_region", start, 0)

GrowHeap ==
    \E increment \in -1..2 :
        SpaceStep(grow_heap(memory.address_spaces[1], increment),
                  "grow_heap", None, increment)

GrowStack ==
    \E size \in RegionSizes :
        SpaceStep(grow_stack(memory.address_spaces[1], size), "grow_stack", None, size)

NextSpace == AddRegion \/ RemoveRegion \/ GrowHeap \/ GrowStack

SpecSpace == InitSpace /\ [][NextSpace]_vars

\* ------------------------------------------------------ frame allocator
\* A FrameAllocator(FrameCount) used on its own, as the unit tests do.
InitFrames ==
    /\ Initialize(SmallMaxPid, MaxProcesses)
    /\ memory = [NoMemory EXCEPT !.total_frames = FrameCount]

FrameAllocate ==
    LET frame == NextFrame(memory)
    IN  MemStep(IF frame = NoFrame THEN memory ELSE frame_allocate(memory, frame),
                MemCall("FrameAllocator.allocate", None, None, frame, "", NoObs))

\* free is called with every frame number and with numbers that are none.
FrameFree ==
    \E frame \in -1..FrameCount :
        LET r == frame_free_one(memory, frame)
        IN  MemStep(r.m, MemCall("FrameAllocator.free", None, frame, None, "",
                                 [freed |-> r.ret]))

NextFrames == FrameAllocate \/ FrameFree

SpecFrames == InitFrames /\ [][NextFrames]_vars

\* ------------------------------------------------------- kernel memory
\* allocate_kernel and free_kernel hand their arguments to the buddy
\* allocator.  Sizes: below the minimum block, between two powers of two,
\* half the arena, the arena, more than the arena.  Addresses: the block
\* boundaries and one address that is never a block's.
BuddySizes ==
    {1, Pow(2, BuddyMinOrder) + 1, Pow(2, BuddyOrder - 1), Pow(2, BuddyOrder),
     Pow(2, BuddyOrder) + 1}
BuddyAddresses ==
    {k * Pow(2, BuddyMinOrder) : k \in 0..Pow(2, BuddyOrder - BuddyMinOrder)} \cup {1}

AllocateKernel ==
    \E size \in BuddySizes :
        LET r == buddy_allocate(memory.buddy_allocator, size)
        IN  MemStep([memory EXCEPT !.buddy_allocator = r.b],
                    MemCall("allocate_kernel", None, size, r.ret, "", NoObs))

FreeKernel ==
    \E address \in BuddyAddresses :
        LET r == buddy_free(memory.buddy_allocator, address)
        IN  MemStep([memory EXCEPT !.buddy_allocator = r.b],
                    MemCall("free_kernel", None, address, None, "", [freed |-> r.ret]))

NextBuddy == AllocateKernel \/ FreeKernel

SpecBuddy == InitMemory /\ [][NextBuddy]_vars

\* ------------------------------------------ processes and their memory
\* The kernel holds a process manager and a memory manager and calls both
\* with the same pids; neither subsystem refers to the other.
NextProcessMemory ==
    \/ CreateProcess
    \/ TerminateProcess
    \/ ReapZombies
    \/ CreateAddressSpace
    \/ AllocateCall

SpecProcessMemory == InitMemory /\ [][NextProcessMemory]_vars

\* ----------------------------------------------------------------- claims
Present(pid) == pid \in PIDs /\ processes[pid] # None

IsZombie(pid) == Present(pid) /\ pcbs[processes[pid]].state = "ZOMBIE"

\* C1: whatever create_process, fork, terminate_process, kill and
\* reap_zombies calls came before, the pid create_process returns (directly
\* or inside fork) was absent from the process table, live or zombie, when
\* the call was made, and is neither 0 nor 1.
C1_FreshPid ==
    [][(last'.op \in {"create_process", "fork"} /\ last'.raised = "")
        => /\ last'.ret \in PIDs \ {1}
           /\ processes[last'.ret] = None]_vars

\* C1 witness: create_process succeeded after stepping over an occupied pid,
\* while a zombie is in the table.
C1_Witness ==
    /\ last.op = "create_process" /\ last.raised = ""
    /\ last.obs.probes >= 1
    /\ \E p \in PIDs : IsZombie(p)

\* The values a process object's CpuContext holds.
ContextOf(o) == contexts[pcbs[o].context]

\* C2: a successful fork(parent_pid) returns a pid other than the parent's;
\* right after it the child's context holds the values the parent's context
\* held when fork was called and the child's pid is in the parent's children
\* list; and whenever, at any later step, the context of a process changes,
\* the contexts of the children it has do not change with it.
C2_ForkContext ==
    [][/\ (last'.op = "fork" /\ last'.raised = "")
            => /\ last'.ret # last'.pid
               /\ contexts'[pcbs'[processes'[last'.ret]].context]
                      = ContextOf(processes[last'.pid])
               /\ InSeq(pcbs'[processes'[last'.pid]].children, last'.ret)
       /\ \A p, c \in PIDs :
            (/\ Present(p) /\ Present(c) /\ InSeq(pcbs[processes[p]].children, c)
             /\ processes'[p] = processes[p] /\ processes'[c] = processes[c]
             /\ contexts'[pcbs'[processes[p]].context] # ContextOf(processes[p]))
            => contexts'[pcbs'[processes[c]].context] = ContextOf(processes[c])]_vars

\* C2 witness: schedule has switched a parent out, saving its context,
\* after it forked a child; the child's context now differs from the parent's.
C2_Witness ==
    /\ last.op = "schedule" /\ last.obs.expired
    /\ current_process # last.obs.current
    /\ \E p, c \in PIDs :
          /\ Present(p) /\ Present(c) /\ processes[p] = last.obs.current
          /\ InSeq(pcbs[processes[p]].children, c)
          /\ ContextOf(processes[c]) # ContextOf(processes[p])

C4_ZombieOrRemoved ==
    [][(last'.op = "terminate_process" /\ last'.raised = ""
            /\ last'.obs.state # "ZOMBIE")
        => LET pid == last'.pid
               parent_pid == pcbs[processes[pid]].parent_pid
               parent == IF parent_pid \in PIDs THEN processes'[parent_pid] ELSE None
           IN  /\ IF parent # None /\ pcbs'[parent].state # "ZOMBIE"
                  THEN /\ processes'[pid] = processes[pid]
                       /\ pcbs'[processes'[pid]].state = "ZOMBIE"
                       /\ InSeq(zombie_list', pid)
                       /\ parent = processes[parent_pid]
                       /\ Occurrences(pcbs'[parent].pending_signals, SIGCHLD)
                            = Occurrences(pcbs[parent].pending_signals, SIGCHLD) + 1
                  ELSE processes'[pid] = None
               /\ processes'[pid] # None
                    => pcbs'[processes'[pid]].state # "TERMINATED"]_vars

\* C4 witness: terminate_process turned a live child of a live parent into
\* a zombie and the parent holds the SIGCHLD.
C4_Witness ==
    /\ last.op = "terminate_process" /\ last.raised = ""
    /\ last.obs.state = "READY"
    /\ IsZombie(last.pid) /\ InSeq(zombie_list, last.pid)
    /\ LET parent == Lookup(Cur, pcbs[processes[last.pid]].parent_pid)
       IN  /\ parent # None /\ pcbs[parent].state # "ZOMBIE"
           /\ InSeq(pcbs[parent].pending_signals, SIGCHLD)

Selected == last.op = "get_next_process" /\ last.ret # None

\* C6: round-robin returns processes in the order they were queued: a
\* process get_next_process returns has no process left ahead of it, where
\* ahead of it are the processes that were queued when it was added or
\* re-queued.  So p1..pN added to an empty scheduler come back as p1..pN, and
\* a process re-queued by time_slice_expired comes back only after every
\* process queued at that moment.
C6_RoundRobinFifo ==
    (Fifo /\ Selected) => last.obs.ahead = {}

\* C6 witness: get_next_process returns a process that time_slice_expired
\* had re-queued behind all the others.
C6_Witness ==
    /\ Fifo /\ Selected
    /\ history.expired[last.ret] >= 1
    /\ history.waited[last.ret] = MaxObj - 1

LevelOf(o) == get_priority_index(pcbs[o])

\* C7: priority scheduler with no aging applied: get_next_process does not
\* return a process of effective level 5 while a process of effective level
\* 0 is queued, whichever was added first.
C7_PriorityOrder ==
    (scheduler.alg = "priority" /\ history.agings = 0 /\ Selected
        /\ LevelOf(last.ret) = 5)
    => \A o \in Queued : LevelOf(o) # 0

\* C7 witness: with no aging applied, get_next_process returns a level-0
\* process while a level-5 process that was added before it is still queued.
C7_Witness ==
    /\ scheduler.alg = "priority" /\ history.agings = 0 /\ Selected
    /\ LevelOf(last.ret) = 0
    /\ \E o \in Queued : LevelOf(o) = 5 /\ pcbs[o].pid \in last.obs.earlier

\* C8: MLFQ with no aging applied: a queued process whose time slice has
\* expired k times since its admission is in the queue of level
\* min(k, num_queues - 1), once, with that level's quantum as its time slice;
\* yields leave k, and so the level, as they were.
C8_MlfqLevel ==
    (scheduler.alg = "mlfq" /\ history.agings = 0)
    => \A o \in Queued :
          LET level == Min(history.expired[o], NumQueues - 1)
          IN  /\ InSeq(scheduler.queues[level + 1], o)
              /\ TimesQueued(scheduler, o) = 1
              /\ pcbs[o].time_slice = quantums(level)

\* C8 witness: with no aging applied, a process that has used up more time
\* slices than there are levels yields and is queued at the last level.
C8_Witness ==
    /\ scheduler.alg = "mlfq" /\ history.agings = 0
    /\ last.op = "yield_process"
    /\ \E o \in Queued :
          /\ pcbs[o].pid = last.pid
          /\ history.expired[o] >= NumQueues
          /\ InSeq(scheduler.queues[NumQueues], o)

\* C5: a process that is ZOMBIE stays ZOMBIE and outside the scheduler until
\* it leaves the process table: every step leaves a zombie either removed
\* from the table or still ZOMBIE and not queued.
C5_ZombieIsFinal ==
    [][\A pid \in PIDs :
          IsZombie(pid)
          => \/ processes'[pid] = None
             \/ /\ processes'[pid] = processes[pid]
                /\ pcbs'[processes[pid]].state = "ZOMBIE"
                /\ ~IsQueued(scheduler', processes[pid])]_vars

\* The process schedule() gets from the scheduler after it has re-queued
\* the current process.
SelectedBySchedule ==
    IF scheduler.queues[1] # <<>> THEN Head(scheduler.queues[1]) ELSE current_process

\* C9: schedule() called while the current process is RUNNING: if the call
\* uses up the quantum and the scheduler selects another process, that
\* process becomes the current one in state RUNNING and the preempted one is
\* READY and queued exactly once; if the quantum is not used up, or the
\* preempted process is itself selected, the current process stays current
\* and RUNNING.
C9_ScheduleSwitch ==
    [][(last'.op = "schedule" /\ current_process # None
            /\ pcbs[current_process].state = "RUNNING")
        => IF last'.obs.expired /\ SelectedBySchedule # current_process
           THEN /\ current_process' = SelectedBySchedule
                /\ pcbs'[SelectedBySchedule].state = "RUNNING"
                /\ pcbs'[current_process].state = "READY"
                /\ TimesQueued(scheduler', current_process) = 1
           ELSE /\ current_process' = current_process
                /\ pcbs'[current_process].state = "RUNNING"]_vars

\* A kill(pid, SIGSTOP) that found the process RUNNING, or the
\* kill(pid, SIGCONT) directly after it.
StopContOfRunning ==
    /\ last.op = "kill" /\ last.raised = ""
    /\ last.sig \in {SIGSTOP, SIGCONT}
    /\ last.obs.stop_state = "RUNNING"

\* C10 as stated: SIGSTOP to a RUNNING process leaves it STOPPED with
\* count() one less than before; the SIGCONT that follows leaves it READY
\* with count() back at the value before the SIGSTOP.
C10_StopContRestores ==
    StopContOfRunning
    => IF last.sig = SIGSTOP
       THEN /\ StateOf(Cur, last.pid) = "STOPPED"
            /\ count(scheduler) = last.obs.stop_count - 1
       ELSE /\ StateOf(Cur, last.pid) = "READY"
            /\ count(scheduler) = last.obs.stop_count

\* C10, amended: SIGSTOP to a RUNNING process leaves it STOPPED and takes
\* one entry of it out of the ready queue if it had one: a RUNNING process
\* normally has none, and count() is unchanged.  The SIGCONT that follows
\* leaves it READY and queued, with count() one more than after the SIGSTOP.
C10_StopContAmended ==
    StopContOfRunning
    => LET held == IF last.obs.stop_queued THEN 1 ELSE 0
       IN  IF last.sig = SIGSTOP
           THEN /\ StateOf(Cur, last.pid) = "STOPPED"
                /\ count(scheduler) = last.obs.stop_count - held
           ELSE /\ StateOf(Cur, last.pid) = "READY"
                /\ IsQueued(scheduler, processes[last.pid])
                /\ count(scheduler) = last.obs.stop_count - held + 1

\* C10 witness: SIGSTOP and then SIGCONT went to a RUNNING process that was
\* not queued; it is READY and count() is one more than before the SIGSTOP.
C10_Witness ==
    /\ StopContOfRunning /\ last.sig = SIGCONT
    /\ ~last.obs.stop_queued
    /\ StateOf(Cur, last.pid) = "READY"
    /\ count(scheduler) = last.obs.stop_count + 1

\* C11: a STOPPED process stays STOPPED and outside the ready set through
\* every ProcessManager call, except that kill(pid, SIGCONT) makes it READY
\* and queued and that termination makes it ZOMBIE or removes it; and
\* kill(pid, SIGCONT) on a process that is not STOPPED changes nothing.
C11_StoppedStays ==
    [][last'.op # "switch"
        => /\ \A pid \in PIDs :
                (Present(pid) /\ pcbs[processes[pid]].state = "STOPPED")
                => LET o == processes[pid]
                   IN  \/ processes'[pid] = None
                       \/ /\ processes'[pid] = o
                          /\ pcbs'[o].state = "ZOMBIE"
                          /\ last'.op \in {"terminate_process", "kill", "tick"}
                       \/ /\ processes'[pid] = o
                          /\ pcbs'[o].state = "STOPPED"
                          /\ ~IsQueued(scheduler', o)
                       \/ /\ last'.op = "kill" /\ last'.sig = SIGCONT
                          /\ last'.pid = pid
                          /\ processes'[pid] = o
                          /\ pcbs'[o].state = "READY"
                          /\ IsQueued(scheduler', o)
           /\ (/\ last'.op = "kill" /\ last'.sig = SIGCONT
               /\ Present(last'.pid)
               /\ pcbs[processes[last'.pid]].state # "STOPPED")
              => UNCHANGED <<pcbs, contexts, processes, pid_tree, zombie_list,
                             next_pid, scheduler, current_process>>]_vars

\* C12: SIGKILL sent to an existing process that is not a zombie, through
\* send_signal or through kill, has terminated it when the call returns:
\* the process is out of the table, or ZOMBIE with exit code -9.
C12_SigkillImmediate ==
    [][(/\ last'.op \in {"kill", "send_signal"} /\ last'.sig = SIGKILL
        /\ Present(last'.pid) /\ ~IsZombie(last'.pid))
        => LET o == processes[last'.pid]
           IN  \/ processes'[last'.pid] = None
               \/ /\ pcbs'[o].state = "ZOMBIE"
                  /\ pcbs'[o].exit_code = <<-9>>]_vars

\* C13: a tick that takes a core-dump-class signal without a registered
\* handler from the pending queue of the current process leaves that
\* process ZOMBIE or out of the process table.
C13_CoreSignalTerminates ==
    [][(/\ last'.op = "tick" /\ current_process # None
        /\ pcbs[current_process].pending_signals # <<>>
        /\ Head(pcbs[current_process].pending_signals) \in SIGNAL_CORE
        /\ Head(pcbs[current_process].pending_signals)
              \notin pcbs[current_process].signal_handlers
        /\ processes[pcbs[current_process].pid] = current_process
        /\ pcbs[current_process].state # "ZOMBIE")
        => \/ processes'[pcbs[current_process].pid] = None
           \/ pcbs'[current_process].state = "ZOMBIE"]_vars

\* C14: when reap_zombies returns, no process in the table is a ZOMBIE whose
\* parent_pid is 1 or whose parent is absent from the table, and the list
\* it returns holds exactly the pids the call took out of the table.
C14_ReapComplete ==
    [][last'.op = "reap_zombies"
        => /\ \A pid \in PIDs :
                (processes'[pid] # None /\ pcbs'[processes'[pid]].state = "ZOMBIE")
                => LET parent_pid == pcbs'[processes'[pid]].parent_pid
                   IN  /\ parent_pid # 1
                       /\ parent_pid \in PIDs
                       /\ processes'[parent_pid] # None
           /\ Range(last'.obs.reaped)
                 = {pid \in PIDs : processes[pid] # None /\ processes'[pid] = None}]_vars

\* C15: terminate_process on a pid that is ZOMBIE returns normally and
\* leaves the process table, the zombie list, the scheduler and every
\* process object (the zombie's exit code and its parent's pending signals
\* included) as they were; on a pid that is not in the table it raises
\* ProcessNotFoundError and leaves them as they were.
C15_TerminateIdempotent ==
    [][last'.op = "terminate_process"
        => /\ IsZombie(last'.pid)
              => /\ last'.raised = ""
                 /\ UNCHANGED <<pcbs, contexts, processes, pid_tree, zombie_list,
                                next_pid, scheduler, current_process>>
           /\ ~Present(last'.pid)
              => /\ last'.raised = "ProcessNotFoundError"
                 /\ UNCHANGED <<pcbs, contexts, processes, pid_tree, zombie_list,
                                next_pid, scheduler, current_process>>]_vars

\* C15 witness: terminate_process was called on a zombie that had exit code
\* -9 and whose parent has its SIGCHLD pending, and the zombie is unchanged.
C15_Witness ==
    /\ last.op = "terminate_process" /\ last.raised = ""
    /\ last.obs.state = "ZOMBIE"
    /\ IsZombie(last.pid)
    /\ pcbs[processes[last.pid]].exit_code = <<-9>>
    /\ zombie_list = <<last.pid>>
    /\ Present(pcbs[processes[last.pid]].parent_pid)
    /\ pcbs[processes[pcbs[processes[last.pid]].parent_pid]].pending_signals = <<SIGCHLD>>

\* C16: create_process raises ProcessCreationError whenever the processes in
\* the table that are not zombies number at least max_processes; and a
\* create_process that raises (limit reached or no pid free) leaves the
\* process table, the pid tree, every children list and the ready queue as
\* they were.
C16_CreateLimit ==
    [][last'.op = "create_process"
        => /\ Cardinality({pid \in PIDs : Present(pid) /\ ~IsZombie(pid)})
                 >= config.max_processes
              => last'.raised = "ProcessCreationError"
           /\ last'.raised # ""
              => /\ UNCHANGED <<processes, pid_tree, scheduler>>
                 /\ \A o \in Oids :
                       pcbs[o] # NoPcb
                       => /\ pcbs'[o] # NoPcb
                          /\ pcbs'[o].children = pcbs[o].children]_vars

\* C16 witness: create_process failed at the process limit while a pid was
\* still free.
C16_Witness ==
    /\ last.op = "create_process" /\ last.raised = "ProcessCreationError"
    /\ Cardinality({pid \in PIDs : Present(pid) /\ ~IsZombie(pid)})
          >= config.max_processes
    /\ \E pid \in 2..config.max_pid : ~Present(pid)

\* C17: an allocate call for a pid that has no address space does not come
\* to a halt: it is never inside create_address_space asking for the
\* memory manager's lock while the lock is held by that same call (the lock
\* is not reentrant, so from there the call can neither go on nor release
\* the lock).
C17_AllocateCompletes ==
    ~(memory.call.pc = "create_address_space" /\ memory.lock = "allocate")

\* C18: for a pid that has an address space, an allocate that succeeds
\* returns the heap end the address space had when the call began; and a
\* free of the returned address for the same pid, directly after an
\* allocate that no page fault overlapped, leaves the pid's usage counter
\* and the number of free frames as they were before the allocate, with no
\* page of the freed region mapped.
C18_AllocateFreeRestores ==
    [][/\ (last'.op = "allocate" /\ last'.raised = "" /\ memory'.call.pc = "idle"
           /\ memory.call.pc # "idle")
          => last'.ret = last'.obs.heap_end
       /\ (/\ last.op = "allocate" /\ last.raised = "" /\ last.obs.stolen = 0
           /\ last'.op = "free" /\ last'.pid = last.pid /\ last'.sig = last.ret)
          => LET space == memory.address_spaces[last.pid]
                 n == find_region(space.regions, last.ret)
                 freed == IF n = 0 THEN {}
                          ELSE {page \in DOMAIN space.page_table :
                                   /\ space.regions[n].start <= page * PageSize
                                   /\ page * PageSize < space.regions[n].end}
             IN  /\ usage(memory', last.pid) = last.obs.usage
                 /\ free_frames(memory') = last.obs.free_frames
                 /\ freed \cap DOMAIN memory'.address_spaces[last.pid].page_table = {}]_vars

\* C19: an allocate whose request would take a process other than the
\* kernel over max_memory_per_process raises MemoryAllocationError and
\* leaves the whole memory manager as it was: frames, regions, page
\* mappings, usage counters and heap ends.
C19_LimitBeforeResources ==
    [][(/\ last'.op = "allocate"
        /\ memory.call.pc = "idle" /\ memory'.call.pc = "idle"
        /\ last'.pid # 0
        /\ usage(memory, last'.pid) + last'.sig > MaxMemoryPerProcess)
        => /\ last'.raised = "MemoryAllocationError"
           /\ memory' = memory]_vars

\* C19 witness: a process that holds memory and has an address space was
\* refused a request over its limit while frames were free.
C19_Witness ==
    /\ last.op = "allocate" /\ last.raised = "MemoryAllocationError"
    /\ last.pid \in DOMAIN memory.address_spaces
    /\ usage(memory, last.pid) > 0
    /\ usage(memory, last.pid) + last.sig > MaxMemoryPerProcess
    /\ last.sig <= MaxMemoryPerProcess
    /\ free_frames(memory) > 0

\* C20: when allocate raises OutOfMemoryError the memory manager is as the
\* call found it.  Raised at the frame check, nothing at all has changed.
\* Raised in the page loop, after page faults took frames meanwhile, the
\* pid's region list, heap end and usage counter are those on entry, every
\* frame the call took is free again (the free frames are those on entry
\* less the frames the page faults took) and the only pages mapped that
\* were not mapped on entry are pages the page faults mapped.
C20_OutOfMemoryRollsBack ==
    [][(/\ last'.op = "allocate" /\ last'.raised = "OutOfMemoryError"
        /\ memory'.call.pc = "idle")
        => /\ memory.call.pc = "idle" => memory' = memory
           /\ memory.call.pc = "map"
              => LET c == memory.call
                     entry == c.entry.space[1]
                     now == memory'.address_spaces[c.pid]
                 IN  /\ now.regions = entry.regions
                     /\ now.heap_end = entry.heap_end
                     /\ usage(memory', c.pid) = c.entry.usage
                     /\ free_frames(memory') = c.entry.free_frames - c.stolen
                     /\ Cardinality(DOMAIN now.page_table \ DOMAIN entry.page_table)
                           <= c.stolen]_vars

\* C21: free(address, pid) raises MemoryDeallocationError and changes
\* nothing when pid has no address space or no region contains address; in
\* particular a free repeated right after a successful free of the same
\* address and pid fails.
C21_FreeFails ==
    [][(last'.op = "free" /\ memory'.lock = "")
        => LET pid == last'.pid
               address == last'.sig
               contained ==
                   /\ pid \in DOMAIN memory.address_spaces
                   /\ \E n \in 1..Len(memory.address_spaces[pid].regions) :
                         LET region == memory.address_spaces[pid].regions[n]
                         IN  region.start <= address /\ address < region.end
               repeated ==
                   /\ last.op = "free" /\ last.raised = ""
                   /\ last.pid = pid /\ last.sig = address
           IN  (~contained \/ repeated)
                  => /\ last'.raised = "MemoryDeallocationError"
                     /\ memory' = memory]_vars

\* C22: every mapped page that lies inside a region carries that region's
\* flags in its page-table entry, after any sequence of allocate, protect
\* and free calls.
C22_FlagsAgree ==
    \A pid \in DOMAIN memory.address_spaces :
        LET space == memory.address_spaces[pid]
        IN  \A page \in DOMAIN space.page_table :
                \A n \in 1..Len(space.regions) :
                    (/\ space.regions[n].start <= page * PageSize
                     /\ page * PageSize < space.regions[n].end)
                       => space.page_table[page].flags = space.regions[n].flags

\* C23: handle_page_fault(virtual_address, pid, access) returns False
\* exactly when pid has no address space, no region contains the address, or
\* the access is a write and the region lacks WRITABLE; otherwise it returns
\* True and the faulting page is then mapped to a frame the frame allocator
\* marks used.
C23_PageFaultOutcome ==
    [][(last'.op = "handle_page_fault" /\ memory'.call = memory.call)
        => LET pid == last'.pid
               address == last'.sig
               known == pid \in DOMAIN memory.address_spaces
               regions == memory.address_spaces[pid].regions
               Holds(n) == regions[n].start <= address /\ address < regions[n].end
               unhandled ==
                   \/ ~known
                   \/ ~\E n \in 1..Len(regions) : Holds(n)
                   \/ /\ last'.obs.access_type = "write"
                      /\ \E n \in 1..Len(regions) :
                            Holds(n) /\ "WRITABLE" \notin regions[n].flags
               page == address \div PageSize
               table == memory'.address_spaces[pid].page_table
           IN  /\ ~last'.obs.handled <=> unhandled
               /\ last'.obs.handled
                     => /\ page \in DOMAIN table
                        /\ table[page].physical_frame \in memory'.allocated]_vars

C25_MemoryGoesWithProcess ==
    [][\A pid \in PIDs :
          (processes[pid] # None /\ processes'[pid] = None)
             => /\ pid \notin DOMAIN memory'.address_spaces
                /\ pid \notin DOMAIN memory'.process_memory]_vars

\* C26: buddy allocator: whenever every allocated block has been freed
\* again, in any order, allocated_blocks is 0 and the free lists hold
\* exactly one block, at address 0 with size total_size, in the list of the
\* maximum order.
C26_FullCoalescence ==
    LET b == memory.buddy_allocator
    IN  DOMAIN b.allocated = {}
           => \A order \in DOMAIN b.free_lists :
                 b.free_lists[order] =
                    IF order = b.max_order
                    THEN <<[address |-> 0, size |-> b.total_size]>>
                    ELSE <<>>

\* The last of several blocks, one not at address 0, has just been freed.
C26_Witness ==
    /\ last.op = "free_kernel" /\ last.obs.freed /\ last.sig # 0
    /\ DOMAIN memory.buddy_allocator.allocated = {}

\* C27: buddy allocator with a power-of-two total_size: the free and the
\* allocated blocks are pairwise disjoint, each has a power-of-two size of
\* at least min_block_size and an address that is a multiple of its size,
\* and their sizes sum to total_size; free of an address that is not
\* allocated returns False and changes nothing.
C27_BuddyPartition ==
    [][LET b == memory'.buddy_allocator
           Listed == {<<order, i>> \in (DOMAIN b.free_lists) \X (1..Pow(2, BuddyOrder)) :
                       i <= Len(b.free_lists[order])}
           Blocks == {<<"free", at[1], at[2]>> : at \in Listed} \cup
                     {<<"allocated", address, 0>> : address \in DOMAIN b.allocated}
           BlockOf(x) == IF x[1] = "free" THEN b.free_lists[x[2]][x[3]]
                         ELSE b.allocated[x[2]]
           Covered(x) == BlockOf(x).address..(BlockOf(x).address + BlockOf(x).size - 1)
       IN  /\ \A x \in Blocks :
                /\ \E order \in 0..BuddyOrder : BlockOf(x).size = Pow(2, order)
                /\ BlockOf(x).size >= b.min_block_size
                /\ BlockOf(x).address % BlockOf(x).size = 0
           /\ \A x, y \in Blocks : x # y => Covered(x) \cap Covered(y) = {}
           /\ UNION {Covered(x) : x \in Blocks} = 0..(b.total_size - 1)
           /\ (/\ last'.op = "free_kernel"
               /\ last'.sig \notin DOMAIN memory.buddy_allocator.allocated)
                 => ~last'.obs.freed /\ memory' = memory]_vars

\* A free of an address that is not allocated has been refused while the
\* arena was split into allocated and free blocks.
C27_Witness ==
    /\ last.op = "free_kernel" /\ ~last.obs.freed
    /\ Cardinality(DOMAIN memory.buddy_allocator.allocated) >= 2
    /\ \E order \in DOMAIN memory.buddy_allocator.free_lists :
          memory.buddy_allocator.free_lists[order] # <<>>

\* C28: frame allocator: free_frames + used_frames = total_frames after
\* any sequence of allocate and free calls; allocate returns a frame that
\* was not allocated at the time of the call and returns None only when
\* every frame is used; free of a frame that is not allocated returns False
\* and changes nothing.
C28_FrameAccounting ==
    [][/\ free_frames(memory') + used_frames(memory') = memory'.total_frames
       /\ free_frames(memory') >= 0
       /\ memory'.allocated \subseteq 0..(memory'.total_frames - 1)
       /\ last'.op = "FrameAllocator.allocate"
             => IF last'.ret = NoFrame
                THEN memory.allocated = 0..(memory.total_frames - 1) /\ memory' = memory
                ELSE /\ last'.ret \notin memory.allocated
                     /\ memory'.allocated = memory.allocated \cup {last'.ret}
       /\ (last'.op = "FrameAllocator.free" /\ last'.sig \notin memory.allocated)
             => ~last'.obs.freed /\ memory' = memory]_vars

\* A frame freed in the middle of the used ones has been handed out again
\* and every frame is used.
C28_Witness ==
    /\ last.op = "FrameAllocator.allocate"
    /\ last.ret \notin {NoFrame, memory.total_frames - 1}
    /\ memory.next_frame = last.ret + 1
    /\ memory.allocated = 0..(memory.total_frames - 1)

\* C29: add_region fails and leaves the region list unchanged whenever the
\* new range [start, start+size) intersects an existing region, and after
\* any sequence of add_region, remove_region, grow_heap and grow_stack calls
\* the regions of an address space are pairwise non-overlapping and ordered
\* by start address.
C29_RegionsDisjoint ==
    [][LET before == memory.address_spaces[1].regions
           regions == memory'.address_spaces[1].regions
           Bytes(r) == r.start..(r.end - 1)
       IN  /\ \A i, j \in 1..Len(regions) :
                 i < j => /\ Bytes(regions[i]) \cap Bytes(regions[j]) = {}
                          /\ regions[i].start <= regions[j].start
           /\ (/\ last'.op = "add_region"
               /\ \E n \in 1..Len(before) :
                     Bytes(before[n]) \cap
                        (last'.sig..(last'.sig + last'.obs.size - 1)) # {})
                 => last'.raised = "ValueError" /\ regions = before]_vars

\* An add_region whose range reaches into a region has been refused while
\* the address space held a heap region and a stack region.
C29_Witness ==
    /\ last.op = "add_region" /\ last.raised = "ValueError"
    /\ Len(memory.address_spaces[1].regions) >= 2
    /\ memory.address_spaces[1].heap_end > HEAP_START
    /\ memory.address_spaces[1].stack_end < STACK_START
    /\ \A n \in 1..Len(memory.address_spaces[1].regions) :
          memory.address_spaces[1].regions[n].start # last.sig

\* C30: get_next_signal returns the pending signals of a process in the
\* order in which they were sent, one per call, and never returns a signal
\* that is in the process's signal mask at the time of the call.
C30_SignalsFifoUnmasked ==
    last.op = "get_next_signal"
       => /\ last.obs.pending # <<>>
                => /\ last.ret = Head(last.obs.pending)
                   /\ pcbs[processes[last.pid]].pending_signals = Tail(last.obs.pending)
          /\ last.obs.pending = <<>> => last.ret = None
          /\ last.ret # None => last.ret \notin last.obs.mask

\* ------------------------------------------------- ready set and processes
\* The operations that create, signal, end and reap processes, and the
\* timer's tick, on a table of SmallMaxPid pids.
NextOperations ==
    \/ CreateProcess
    \/ Fork
    \/ TerminateProcess
    \/ Kill({SIGKILL, SIGSTOP, SIGCONT})
    \/ ReapZombies
    \/ Tick

SpecOperations == Init /\ [][NextOperations]_vars

\* C31: after every operation, every process object in the scheduler's
\* ready set is the entry of its pid in the process table and is READY.
C31_QueuedAreReady ==
    \A o \in Oids :
        IsQueued(scheduler, o)
        => /\ pcbs[o] # NoPcb
           /\ processes[pcbs[o].pid] = o
           /\ pcbs[o].state = "READY"

\* C32: after every operation, no process object is in the scheduler's
\* queues more than once, and the current process is not queued.
C32_QueuedOnce ==
    /\ \A o \in Oids : TimesQueued(scheduler, o) <= 1
    /\ current_process # None => ~IsQueued(scheduler, current_process)

\* C33: whenever the context switcher has a current process, it is the
\* entry of its pid in the process table, it is RUNNING, and no other
\* process in the table is RUNNING.
C33_OneRunning ==
    current_process # None
    => /\ processes[pcbs[current_process].pid] = current_process
       /\ pcbs[current_process].state = "RUNNING"
       /\ \A pid \in PIDs :
              (processes[pid] # None /\ processes[pid] # current_process)
              => pcbs[processes[pid]].state # "RUNNING"

\* ------------------------------------------------------- timer and progress
\* Processes are created and ended while the kernel's clock thread keeps
\* calling schedule() and tick(): both calls are made again and again (weak
\* fairness), nothing else is promised.  The first dispatch of an idle CPU
\* may happen or not.
NextProgress ==
    \/ CreateProcess
    \/ TerminateProcess
    \/ Schedule
    \/ Tick
    \/ Dispatch

SpecProgress ==
    /\ Init
    /\ [][NextProgress]_vars
    /\ WF_vars(Schedule)
    /\ WF_vars(Tick)

\* The process object o is READY in the table and in the ready set.
ReadyInScheduler(o) ==
    /\ pcbs[o] # NoPcb
    /\ processes[pcbs[o].pid] = o
    /\ pcbs[o].state = "READY"
    /\ IsQueued(scheduler, o)

\* The process object o has been stopped or terminated, or has left.
StoppedOrTerminated(o) ==
    \/ pcbs[o] = NoPcb
    \/ processes[pcbs[o].pid] # o
    \/ pcbs[o].state \in {"STOPPED", "ZOMBIE", "TERMINATED"}

\* C34: under repeated schedule() and tick() calls, a process that is READY
\* in the scheduler eventually is the current process in state RUNNING,
\* unless it is stopped or terminated first.
C34_ReadyEventuallyRuns ==
    \A o \in Oids :
        ReadyInScheduler(o)
        ~> \/ (current_process = o /\ pcbs[o] # NoPcb /\ pcbs[o].state = "RUNNING")
           \/ StoppedOrTerminated(o)

\* --------------------------------------------------------- orphan zombies
\* Processes are created and terminated on a table of MaxPid pids while
\* the kernel's clock thread keeps calling tick() and the reaper keeps
\* calling reap_zombies(): as long as the zombie list is not empty, both
\* calls are made again and again (weak fairness).
NextReaping ==
    \/ CreateProcess
    \/ TerminateProcess
    \/ ReapZombies
    \/ Tick

\* The step is a call of tick(), of reap_zombies(), made while there are
\* zombies: the call just completed is that call on the present state.
TickCalled ==
    /\ zombie_list # <<>>
    /\ last' = Call("tick", get_current_pid(Cur), None, NoObs,
                    [tick(Cur) EXCEPT !.ret = None])

ReapZombiesCalled ==
    /\ zombie_list # <<>>
    /\ last' = Call("reap_zombies", None, None, [reaped |-> reap_zombies(Cur).ret],
                    [reap_zombies(Cur) EXCEPT !.ret = None])

SpecReaping ==
    /\ InitLifecycle
    /\ [][NextReaping]_vars
    /\ WF_last(TickCalled)
    /\ WF_last(ReapZombiesCalled)

\* pid is a ZOMBIE whose parent has been removed from the process table.
OrphanZombie(pid) ==
    /\ IsZombie(pid)
    /\ pcbs[processes[pid]].parent_pid \in PIDs
    /\ processes[pcbs[processes[pid]].parent_pid] = None

\* C35: every ZOMBIE whose parent has been removed from the process table
\* is eventually removed itself, also when create_process reuses freed
\* pids in between.
C35_OrphanZombieReaped ==
    \A pid \in PIDs : OrphanZombie(pid) ~> (processes[pid] = None)

\* ------------------------------------------------ concurrent create_process
\* Two threads call create_process on one ProcessManager.  A call runs in
\* three steps: up to "Generate PID" (the limit check and the choice of the
\* parent), _generate_pid (one step: it runs under _pid_lock), and from
\* "Create PCB" on (no lock held).  `history` holds each thread's position
\* and locals: pc, parent_pid, pid, and the process object it created.
Threads == {1, 2}

IdleThread == [pc |-> "idle", parent_pid |-> None, pid |-> None, pcb |-> None]

InitConcurrent ==
    /\ \E max_pid \in {SmallMaxPid, MaxPid} : InitializeManager(max_pid, MaxProcesses)
    /\ history = [threads |-> [t \in Threads |-> IdleThread]]
    /\ memory = NoMemory

\* A step of thread t: the manager's state after it, and the thread's.
ThreadStep(t, r, op, thread) ==
    /\ Bounded(r)
    /\ pcbs' = r.pcbs
    /\ contexts' = r.contexts
    /\ processes' = r.processes
    /\ pid_tree' = r.pid_tree
    /\ zombie_list' = r.zombie_list
    /\ next_pid' = r.next_pid
    /\ scheduler' = r.scheduler
    /\ current_process' = r.current_process
    /\ last' = Call(op, None, None, [thread |-> t], [r EXCEPT !.ret = None])
    /\ history' = [history EXCEPT !.threads[t] = thread]
    /\ UNCHANGED <<config, memory>>

\* Thread t calls create_process (again, once its last call has returned).
CreateEnter(t) ==
    /\ history.threads[t].pc \in {"idle", "done"}
    /\ \E parent \in CallerPids \cup {None} :
          LET r == create_enter(Cur, parent)
          IN  ThreadStep(t, r, "create_process",
                         IF r.raised # "" THEN IdleThread
                         ELSE [IdleThread EXCEPT !.pc = "generate", !.parent_pid = r.ret])

GeneratePid(t) ==
    /\ history.threads[t].pc = "generate"
    /\ LET r == generate_pid(Cur)
       IN  ThreadStep(t, r, "_generate_pid",
                      IF r.raised # "" THEN IdleThread
                      ELSE [history.threads[t] EXCEPT !.pc = "create", !.pid = r.ret])

CreatePcb(t) ==
    /\ history.threads[t].pc = "create"
    /\ LET thread == history.threads[t]
           r == create_pcb(Cur, thread.pid, thread.parent_pid, 20)
       IN  ThreadStep(t, r, "create_pcb",
                      [thread EXCEPT !.pc = "done", !.pcb = r.processes[thread.pid]])

NextConcurrent ==
    \E t \in Threads :
        \/ CreateEnter(t)
        \/ GeneratePid(t)
        \/ CreatePcb(t)

SpecConcurrent == InitConcurrent /\ [][NextConcurrent]_vars

\* C36: two threads in create_process never hold the same pid, and when
\* both calls have returned, each thread's process object is the entry of
\* its pid in the process table.
C36_ConcurrentCreate ==
    \A t, u \in Threads :
        LET a == history.threads[t]
            b == history.threads[u]
        IN  /\ (t # u /\ a.pc \in {"create", "done"} /\ b.pc \in {"create", "done"})
               => a.pid # b.pid
            /\ (a.pc = "done" /\ b.pc = "done") => processes[a.pid] = a.pcb

\* C37: priority scheduler: after every call each queued process sits in
\* the queue whose index is clamp(priority + nice, 0, priority_levels - 1),
\* also after aging; and remove_process on a queued process takes it out
\* of the queues, count() going down by one.
C37_QueueIsPriority ==
    [][scheduler.alg = "priority"
        => /\ \A i \in 1..Len(scheduler'.queues) :
                \A o \in Range(scheduler'.queues[i]) :
                    get_priority_index(pcbs'[o]) = i - 1
           /\ \A o \in Oids :
                (last'.op = "remove_process" /\ last'.pid = pcbs[o].pid
                    /\ IsQueued(scheduler, o))
                => /\ ~IsQueued(scheduler', o)
                   /\ count(scheduler') = count(scheduler) - 1]_vars

\* --------------------------------------------------- per-process limit
\* The memory manager under every configured max_memory_per_process up to
\* MaxMemoryPerProcess, multiples of the page size and others; calls are
\* serialized.
InitMemoryLimits ==
    /\ Initialize(SmallMaxPid, MaxProcesses)
    /\ \E limit \in 1..MaxMemoryPerProcess :
          memory = [MemoryManager EXCEPT !.max_memory_per_process = limit]

NextAllocation ==
    \/ CreateAddressSpace
    \/ AllocateCall
    \/ Free

SpecMemoryLimits == InitMemoryLimits /\ [][NextAllocation]_vars

\* C38: after every allocate and free call, successful or failed, the
\* usage counter of every pid other than 0 is at most the configured
\* max_memory_per_process.
C38_UsageWithinLimit ==
    \A pid \in DOMAIN memory.process_memory :
        pid # 0 => memory.process_memory[pid] <= memory.max_memory_per_process

\* ------------------------------------------------------- usage counters
\* allocate, free and handle_page_fault, one call after the other.
NextUsage ==
    \/ CreateAddressSpace
    \/ AllocateCall
    \/ Free
    \/ PageFault

SpecUsage == InitMemory /\ [][NextUsage]_vars

\* The total size of the regions of an address space.
RegionBytes(regions) ==
    LET RECURSIVE total(_)
        total(i) == IF i = 0 THEN 0
                    ELSE (regions[i].end - regions[i].start) + total(i - 1)
    IN  total(Len(regions))

\* C39: after every allocate, free and handle_page_fault call the usage
\* counter of each pid is page_size times the number of pages mapped in its
\* page table, equals the total size of its regions, and is not negative.
C39_UsageIsMapped ==
    \A pid \in DOMAIN memory.process_memory :
        /\ memory.process_memory[pid] >= 0
        /\ pid \in DOMAIN memory.address_spaces
           => LET space == memory.address_spaces[pid]
              IN  /\ memory.process_memory[pid]
                        = PageSize * Cardinality(DOMAIN space.page_table)
                  /\ memory.process_memory[pid] = RegionBytes(space.regions)

\* --------------------------------------------------------- slab allocator
\* A SlabAllocator(SlabObjectSize, SlabSize) used on its own.  `memory`
\* holds the allocator and, beside it, the indices its callers hold: those
\* allocate returned and no free has given back since.
NoIndex == -1

\* SlabAllocator._allocate_slab
allocate_slab(s) ==
    LET base_index == s.slabs * s.objects_per_slab
    IN  [s EXCEPT !.slabs = @ + 1,
                  !.free_objects = @ \o [i \in 1..s.objects_per_slab |-> base_index + i - 1]]

\* SlabAllocator.__init__
SlabAllocator(object_size, slab_size) ==
    allocate_slab([object_size |-> object_size, slab_size |-> slab_size,
                   objects_per_slab |-> slab_size \div object_size,
                   slabs |-> 0, free_objects |-> <<>>, used_count |-> 0])

\* SlabAllocator.allocate; NoIndex stands for the None it returns.
slab_allocate(s) ==
    LET s1 == IF s.free_objects = <<>> THEN allocate_slab(s) ELSE s
    IN  IF s1.free_objects = <<>> THEN [s |-> s1, ret |-> NoIndex]
        ELSE [s |-> [s1 EXCEPT !.free_objects = Tail(@), !.used_count = @ + 1],
              ret |-> Head(s1.free_objects)]

\* SlabAllocator.free
slab_free(s, index) ==
    IF index < 0 THEN [s |-> s, ret |-> FALSE]
    ELSE [s |-> [s EXCEPT !.free_objects = Append(@, index), !.used_count = @ - 1],
          ret |-> TRUE]

\* SlabAllocator.get_stats
get_stats(s) ==
    [total_slabs |-> s.slabs,
     objects_per_slab |-> s.objects_per_slab,
     total_objects |-> s.slabs * s.objects_per_slab,
     used_objects |-> s.used_count,
     free_objects |-> Len(s.free_objects)]

InitSlab ==
    /\ Initialize(SmallMaxPid, MaxProcesses)
    /\ memory = [slab |-> SlabAllocator(SlabObjectSize, SlabSize), held |-> {}]

SlabStep(r, held, call) ==
    /\ r.s.slabs <= MaxSlabs
    /\ Len(r.s.free_objects) <= MaxFreeObjects
    /\ MemStep([slab |-> r.s, held |-> held], call)

SlabAllocate ==
    LET r == slab_allocate(memory.slab)
    IN  SlabStep(r, memory.held \cup ({r.ret} \ {NoIndex}),
                 MemCall("SlabAllocator.allocate", None, None, r.ret, "", NoObs))

\* free is called with indices held, indices already free, indices never
\* allocated and negative ones.
SlabFree ==
    \E index \in -1..(MaxSlabs * (SlabSize \div SlabObjectSize)) :
        LET r == slab_free(memory.slab, index)
        IN  SlabStep(r, IF r.ret THEN memory.held \ {index} ELSE memory.held,
                     MemCall("SlabAllocator.free", None, index, None, "",
                             [freed |-> r.ret]))

NextSlab == SlabAllocate \/ SlabFree

SpecSlab == InitSlab /\ [][NextSlab]_vars

\* C40: slab allocator: allocate never returns an index that a caller holds
\* (returned earlier and not freed since), and after every call
\* used_objects + free_objects = total_objects with used_objects >= 0.
C40_SlabIndicesDistinct ==
    [][/\ (last'.op = "SlabAllocator.allocate" /\ last'.ret # NoIndex)
          => last'.ret \notin memory.held
       /\ LET stats == get_stats(memory'.slab)
          IN  /\ stats.used_objects + stats.free_objects = stats.total_objects
              /\ stats.used_objects >= 0]_vars

====
